---- MODULE Spec2Model ----
(***************************************************************************)
(* Device-command orchestration and caching layer of debloat-ai:           *)
(*   package_stream.rs  - streaming package enumerator and package cache   *)
(*   adb.rs             - bridge locator, executor and device registry     *)
(*   system_health.rs   - health metrics collector                         *)
(* Time is counted in whole seconds.  A subprocess is modelled by the      *)
(* step that spawns it and reads what the attached device answers.         *)
(***************************************************************************)
EXTENDS Integers, Sequences, FiniteSets, TLC

\* ===== package_stream.rs constants =====
CHUNK_SIZE == 30
CACHE_DURATION_SECS == 300

\* ===== bounds of the model =====
\* full batches one listing may produce before its output ends
MaxChunks == 1
\* the clock stops advancing after this many seconds
MaxTime == 450
None == "None"
Serials == {"A", "B"}
\* command invocations in flight at once
Tasks == {"ui"}

\* seconds the clock may advance in one step of the enumerator's model
StreamTicks == {CACHE_DURATION_SECS \div 2}
\* sizes of the partial batch left over when the listing output ends
TailSizes == {0, CHUNK_SIZE - 1}

VARIABLES
    now,            \* Instant::now(), in seconds
    attached,       \* what the bridge sees: sequence of [serial, state]
    bridge,         \* where the adb executable is: "in_path", "at_path", "absent"
    PACKAGE_CACHE,  \* Option<CachedPackages>: <<>> is None, <<c>> is Some(c)
    task,           \* one command invocation of the UI per slot
    lastStored,     \* history: the entry the last successful pass stored
    ADB_PATH,       \* adb.rs lazy static: <<>> until first use, then <<path or None>>
    DEVICE_CACHE,   \* adb.rs DeviceCache: [devices, last_update]
    deviceLock,     \* holder of the DEVICE_CACHE mutex, or None
    call,           \* one adb.rs call per caller
    HEALTH_CACHE,   \* system_health.rs HealthCache: seven slots and device_id
    pass,           \* one collect_system_health per caller
    probe           \* one application of a pure function: [fn, input, output]

streamVars == <<PACKAGE_CACHE, task, lastStored>>
deviceVars == <<ADB_PATH, DEVICE_CACHE, deviceLock, call>>
healthVars == <<HEALTH_CACHE, pass>>
envVars == <<now, attached, bridge>>
pureVars == <<probe>>

\* ===== generic helpers =====

Min(a, b) == IF a < b THEN a ELSE b

RECURSIVE Flatten(_)
Flatten(ss) == IF ss = <<>> THEN <<>> ELSE Head(ss) \o Flatten(Tail(ss))

Count(x, s) == Cardinality({i \in 1..Len(s) : s[i] = x})

SameBag(s1, s2) ==
    /\ Len(s1) = Len(s2)
    /\ \A i \in 1..Len(s1) : Count(s1[i], s1) = Count(s1[i], s2)

\* ===== the environment: attached devices and their answers =====

BridgeStates == {"in_path", "at_path", "absent"}

\* what may be attached while packages are streamed, in listing order
Listings ==
    { <<>>,
      <<[serial |-> "A", state |-> "device"]>>,
      <<[serial |-> "A", state |-> "offline"], [serial |-> "B", state |-> "device"]>> }

\* stdout of `adb devices -l`: a header line, then one line per device.
\* A line is the sequence of its whitespace-separated columns; a column is
\* <<text>>, or <<key, value>> when it reads key:value.  A ready device
\* prints its properties, any other only serial and state.
DeviceLine(dev, i) ==
    IF dev.state = "device"
    THEN << <<dev.serial>>, <<dev.state>>, <<"product", "sdk">>, <<"model", dev.serial>>,
            <<"device", "generic">>, <<"transport_id", i>> >>
    ELSE << <<dev.serial>>, <<dev.state>> >>

DevicesOutput(att) ==
    <<  << <<"List">>, <<"of">>, <<"devices">>, <<"attached">> >>  >> \o
    [i \in 1..Len(att) |-> DeviceLine(att[i], i)]

\* a parser that also skips the lines of devices that are not ready
SkippedLine_NotReady(parts) ==
    \/ parts = <<>>
    \/ Len(parts) >= 3 /\ SubSeq(parts, 1, 3) = << <<"List">>, <<"of">>, <<"devices">> >>
    \/ parts[1] = <<"*">>
    \/ Len(parts) >= 2 /\ parts[2] # <<"device">>

\* line.is_empty() || line.starts_with("List of devices") || line.starts_with("*")
SkippedLine(parts) ==
    \/ parts = <<>>
    \/ Len(parts) >= 3 /\ SubSeq(parts, 1, 3) = << <<"List">>, <<"of">>, <<"devices">> >>
    \/ parts[1] = <<"*">>

IsReady(serial, att) ==
    \E i \in 1..Len(att) : att[i].serial = serial /\ att[i].state = "device"

\* Line i of the stdout of `pm list packages -a` on a device.  A line is
\* [prefix, name]: prefix says whether it starts with "package:", name is
\* the trimmed rest (0 for an empty rest).  Names are numbered in their
\* lexicographic order.  The two devices list different packages, neither
\* in sorted order; some lines are not package lines.
PmLine(serial, i) ==
    IF i % 8 = 0 THEN [prefix |-> FALSE, name |-> i]
    ELSE IF i % 13 = 0 THEN [prefix |-> TRUE, name |-> 0]
    ELSE [prefix |-> TRUE,
          name |-> IF serial = "A" THEN ((i * 7) % 251) + 1
                                   ELSE ((i * 11) % 251) + 300]

\* ===== package_database.rs =====
\* A package identifier is the sequence of its pieces, the dots included:
\* com.facebook.katana is <<"com", ".", "facebook", ".", "katana">>.  A
\* piece may be part of a longer word: telecom.facebook.app starts with the
\* pieces "tele" and "com".

\* PACKAGE_DB: the keys of the static table with their safety levels
PACKAGE_DB ==
    {
      <<<<"com", ".", "android", ".", "systemui">>, "Dangerous">>,
      <<<<"com", ".", "android", ".", "phone">>, "Dangerous">>,
      <<<<"com", ".", "android", ".", "settings">>, "Dangerous">>,
      <<<<"com", ".", "android", ".", "launcher3">>, "Dangerous">>,
      <<<<"com", ".", "android", ".", "vending">>, "Dangerous">>,
      <<<<"com", ".", "google", ".", "android", ".", "gms">>, "Expert">>,
      <<<<"com", ".", "google", ".", "android", ".", "gsf">>, "Expert">>,
      <<<<"com", ".", "android", ".", "bluetooth">>, "Expert">>,
      <<<<"com", ".", "android", ".", "nfc">>, "Expert">>,
      <<<<"com", ".", "android", ".", "providers", ".", "contacts">>, "Expert">>,
      <<<<"com", ".", "verizon", ".", "services">>, "Expert">>,
      <<<<"com", ".", "att", ".", "myWireless">>, "Expert">>,
      <<<<"com", ".", "sprint", ".", "zone">>, "Expert">>,
      <<<<"com", ".", "facebook", ".", "katana">>, "Caution">>,
      <<<<"com", ".", "facebook", ".", "services">>, "Caution">>,
      <<<<"com", ".", "facebook", ".", "system">>, "Caution">>,
      <<<<"com", ".", "instagram", ".", "android">>, "Caution">>,
      <<<<"com", ".", "whatsapp">>, "Caution">>,
      <<<<"com", ".", "samsung", ".", "android", ".", "app", ".", "spage">>, "Caution">>,
      <<<<"com", ".", "samsung", ".", "android", ".", "bixby", ".", "agent">>, "Caution">>,
      <<<<"com", ".", "samsung", ".", "android", ".", "game", ".", "gametools">>, "Caution">>,
      <<<<"com", ".", "sec", ".", "android", ".", "app", ".", "samsungapps">>, "Caution">>,
      <<<<"com", ".", "samsung", ".", "android", ".", "messaging">>, "Caution">>,
      <<<<"com", ".", "xiaomi", ".", "micloud", ".", "sdk">>, "Caution">>,
      <<<<"com", ".", "miui", ".", "analytics">>, "Caution">>,
      <<<<"com", ".", "miui", ".", "msa", ".", "global">>, "Caution">>,
      <<<<"com", ".", "huawei", ".", "appmarket">>, "Caution">>,
      <<<<"com", ".", "oppo", ".", "market">>, "Caution">>,
      <<<<"com", ".", "google", ".", "android", ".", "apps", ".", "maps">>, "Safe">>,
      <<<<"com", ".", "google", ".", "android", ".", "gm">>, "Safe">>,
      <<<<"com", ".", "google", ".", "android", ".", "youtube">>, "Safe">>,
      <<<<"com", ".", "google", ".", "android", ".", "apps", ".", "photos">>, "Safe">>,
      <<<<"com", ".", "google", ".", "android", ".", "apps", ".", "docs">>, "Safe">>,
      <<<<"com", ".", "google", ".", "android", ".", "music">>, "Safe">>,
      <<<<"com", ".", "google", ".", "android", ".", "videos">>, "Safe">>,
      <<<<"com", ".", "android", ".", "chrome">>, "Safe">>,
      <<<<"com", ".", "netflix", ".", "mediaclient">>, "Safe">>,
      <<<<"com", ".", "spotify", ".", "music">>, "Safe">>,
      <<<<"com", ".", "microsoft", ".", "office", ".", "officehubrow">>, "Safe">>,
      <<<<"com", ".", "android", ".", "calendar">>, "Safe">>,
      <<<<"com", ".", "android", ".", "calculator2">>, "Safe">>,
      <<<<"com", ".", "android", ".", "deskclock">>, "Safe">>,
      <<<<"com", ".", "android", ".", "email">>, "Safe">>,
      <<<<"com", ".", "tiktok", ".", "android">>, "Caution">>,
      <<<<"com", ".", "android", ".", "traceur">>, "Caution">>,
      <<<<"com", ".", "google", ".", "android", ".", "apps", ".", "turbo">>, "Caution">>,
      <<<<"com", ".", "samsung", ".", "android", ".", "scloud">>, "Caution">> }

DbKeys == {entry[1] : entry \in PACKAGE_DB}

\* PACKAGE_DB.get(package).map(|info| info.safety_level)
DbLevel(package) == (CHOOSE entry \in PACKAGE_DB : entry[1] = package)[2]

\* package.contains(pattern)
Contains(package, pattern) ==
    \E i \in 1..(Len(package) - Len(pattern) + 1) :
        SubSeq(package, i, i + Len(pattern) - 1) = pattern

ContainsAny(package, patterns) == \E pattern \in patterns : Contains(package, pattern)

\* the patterns of the three fallback rules, in the order they are tried
SocialPatterns ==
    { <<"com", ".", "facebook">>, <<"com", ".", "instagram">>, <<"com", ".", "tiktok">> }
CriticalPatterns ==
    { <<"com", ".", "google", ".", "android", ".", "gms">>,
      <<"com", ".", "android", ".", "vending">>,
      <<"com", ".", "android", ".", "systemui">> }
VendorPatterns ==
    { <<"com", ".", "samsung">>, <<"com", ".", "xiaomi">>, <<"com", ".", "miui">>,
      <<"com", ".", "huawei">>, <<"com", ".", "oppo">>, <<"com", ".", "vivo">> }

\* a classification that tries the substring rules before the table
get_safety_level_RulesFirst(package) ==
    IF ContainsAny(package, SocialPatterns) THEN "Caution"
    ELSE IF ContainsAny(package, CriticalPatterns) THEN "Dangerous"
    ELSE IF ContainsAny(package, VendorPatterns) THEN "Caution"
    ELSE IF package \in DbKeys THEN DbLevel(package)
    ELSE "Safe"

get_safety_level(package) ==
    IF package \in DbKeys THEN DbLevel(package)
    ELSE IF ContainsAny(package, SocialPatterns) THEN "Caution"
    ELSE IF ContainsAny(package, CriticalPatterns) THEN "Dangerous"
    ELSE IF ContainsAny(package, VendorPatterns) THEN "Caution"
    ELSE "Safe"

\* a test that lets Expert packages go
is_safe_to_remove_UpToExpert(package) ==
    get_safety_level(package) \in {"Safe", "Caution", "Expert"}

is_safe_to_remove(package) == get_safety_level(package) \in {"Safe", "Caution"}

\* identifiers that are no table key: some match one rule, some two, some
\* none, some hold a rule's word without its com. prefix
UnknownIdentifiers ==
    {
      <<"com", ".", "facebook", ".", "unknown">>,
      <<"com", ".", "samsung", ".", "unknown">>,
      <<"com", ".", "instagram", ".", "lite">>,
      <<"com", ".", "tiktok", ".", "lite">>,
      <<"com", ".", "google", ".", "android", ".", "gms", ".", "ads">>,
      <<"com", ".", "android", ".", "vending", ".", "billing">>,
      <<"com", ".", "android", ".", "systemui", ".", "plugin">>,
      <<"com", ".", "xiaomi", ".", "scanner">>,
      <<"com", ".", "miui", ".", "gallery">>,
      <<"com", ".", "huawei", ".", "health">>,
      <<"com", ".", "oppo", ".", "camera">>,
      <<"com", ".", "vivo", ".", "browser">>,
      <<"org", ".", "mozilla", ".", "firefox">>,
      <<"org", ".", "facebook", ".", "lite">>,
      <<"net", ".", "gms", ".", "tool">>,
      <<"org", ".", "samsung", ".", "tool">>,
      <<"io", ".", "vending", ".", "app">>,
      <<"de", ".", "tiktok">>,
      <<"tele", "com", ".", "facebook", ".", "app">>,
      <<"com", ".", "facebook", ".", "com", ".", "android", ".", "systemui">>,
      <<"com", ".", "samsung", ".", "com", ".", "android", ".", "vending">>,
      <<"com", ".", "vivo", ".", "com", ".", "tiktok">> }

Identifiers == DbKeys \cup UnknownIdentifiers

\* In the package listings of the model package names are numbers; 1, 2
\* and 3 stand for com.android.systemui, com.facebook.katana and
\* com.google.android.apps.maps, every other number for a name that is no
\* table key and matches no substring rule.
NumberedIdentifier(package_name) ==
    IF package_name = 1 THEN <<"com", ".", "android", ".", "systemui">>
    ELSE IF package_name = 2 THEN <<"com", ".", "facebook", ".", "katana">>
    ELSE IF package_name = 3
         THEN <<"com", ".", "google", ".", "android", ".", "apps", ".", "maps">>
    ELSE <<"pkg">>

get_display_name(package) ==
    IF package = 1 THEN <<"System UI">>
    ELSE IF package = 2 THEN <<"Facebook">>
    ELSE IF package = 3 THEN <<"Google Maps">>
    ELSE <<"formatted", package>>

\* ===== package_stream.rs: data types =====

StreamedPackage(package_name) ==
    [package_name |-> package_name,
     app_name |-> get_display_name(package_name),
     safety_level |-> get_safety_level(NumberedIdentifier(package_name))]

PackageChunk(packages, chunk_index, total_so_far, is_final) ==
    [event |-> "package_chunk", packages |-> packages, chunk_index |-> chunk_index,
     total_so_far |-> total_so_far, is_final |-> is_final]

\* a progress event that never marks the end of the pass
StreamProgress_NeverComplete(status, packages_loaded, is_complete, error) ==
    [event |-> "package_stream_progress", status |-> status,
     packages_loaded |-> packages_loaded, is_complete |-> FALSE, error |-> error]

StreamProgress(status, packages_loaded, is_complete, error) ==
    [event |-> "package_stream_progress", status |-> status,
     packages_loaded |-> packages_loaded, is_complete |-> is_complete, error |-> error]

StreamComplete(total_packages, duration_ms, from_cache) ==
    [event |-> "package_stream_complete", total_packages |-> total_packages,
     duration_ms |-> duration_ms, from_cache |-> from_cache]

CachedPackages(packages, timestamp, device_serial) ==
    [packages |-> packages, timestamp |-> timestamp, device_serial |-> device_serial]

\* timestamp.elapsed()
Elapsed(timestamp) == now - timestamp

\* ===== package_stream.rs: pure parts =====

\* find_adb_path_async: the version probe, then the well-known paths
find_adb_path_async ==
    IF bridge = "in_path" THEN "adb"
    ELSE IF bridge = "at_path" THEN "/usr/local/bin/adb"
    ELSE None

\* the line loop of get_device_serial_async over the listing's lines
RECURSIVE FirstReadySerial(_)
FirstReadySerial(lines) ==
    IF lines = <<>> THEN None
    ELSE LET parts == Head(lines) IN
         IF SkippedLine(parts) THEN FirstReadySerial(Tail(lines))
         ELSE IF Len(parts) >= 2 /\ parts[2] = <<"device">> THEN parts[1][1]
         ELSE FirstReadySerial(Tail(lines))

\* a line loop that puts each new record at the head of the batch
ProcessLine_Prepends(all_packages, chunk, line) ==
    IF line.prefix /\ line.name # 0
    THEN LET pkg == StreamedPackage(line.name) IN
         <<Append(all_packages, pkg), <<pkg>> \o chunk>>
    ELSE <<all_packages, chunk>>

\* one iteration of the line loop of stream_packages_from_adb: the pair
\* <<all_packages, chunk>> after the line was handled
ProcessLine(all_packages, chunk, line) ==
    IF line.prefix /\ line.name # 0
    THEN LET pkg == StreamedPackage(line.name) IN
         <<Append(all_packages, pkg), Append(chunk, pkg)>>
    ELSE <<all_packages, chunk>>

\* the line loop run until the in-flight chunk holds `target` records:
\* <<all_packages, chunk, lines read>>
RECURSIVE ReadLines(_, _, _, _, _)
ReadLines(serial, all_packages, chunk, pos, target) ==
    IF Len(chunk) >= target THEN <<all_packages, chunk, pos>>
    ELSE LET r == ProcessLine(all_packages, chunk, PmLine(serial, pos + 1)) IN
         ReadLines(serial, r[1], r[2], pos + 1, target)

\* a pass that stores the records in the order they were read
SortByName_AsRead(packages) == packages

\* all_packages.sort_by(|a, b| a.package_name.cmp(&b.package_name)): a
\* stable sort, so the record at index i lands after the records with a
\* smaller name and after the equal-named ones that stood before it
SortRank(packages, i) ==
    Cardinality({j \in 1..Len(packages) :
        \/ packages[j].package_name < packages[i].package_name
        \/ (packages[j].package_name = packages[i].package_name /\ j <= i)})

SortByName(packages) ==
    LET rank == [i \in 1..Len(packages) |-> SortRank(packages, i)] IN
    [k \in 1..Len(packages) |->
        packages[CHOOSE i \in 1..Len(packages) : rank[i] = k]]

\* a chunking that hands out the first chunk every time
ChunkOf_AlwaysFirst(packages, k) == SubSeq(packages, 1, Min(CHUNK_SIZE, Len(packages)))

\* packages.chunks(CHUNK_SIZE): chunk number k, counted from 0
ChunkOf(packages, k) ==
    SubSeq(packages, k * CHUNK_SIZE + 1, Min((k + 1) * CHUNK_SIZE, Len(packages)))

\* a cache test with the age comparison the wrong way round
CacheHit_AgeInverted(cache, force_refresh, device_serial) ==
    /\ ~force_refresh
    /\ cache # <<>>
    /\ cache[1].device_serial = device_serial
    /\ Elapsed(cache[1].timestamp) > CACHE_DURATION_SECS

\* the cache test of start_package_stream
CacheHit(cache, force_refresh, device_serial) ==
    /\ ~force_refresh
    /\ cache # <<>>
    /\ cache[1].device_serial = device_serial
    /\ Elapsed(cache[1].timestamp) < CACHE_DURATION_SECS


\* ===== package_stream.rs: one command invocation =====
\* command: "start_package_stream" or "get_cached_packages"
\* pc: "idle"    not called
\*     "resolve" in get_device_serial_async
\*     "check"   serial known, about to lock the cache
\*     "replay"  emitting the cached list
\*     "live"    spawned task, before the listing subprocess is spawned
\*     "reading" in the line loop
\*     "wait"    output ended, child.wait() pending
\*     "store"   stream_packages_from_adb returned Ok, cache lock pending
\*     "done"    nothing left to do
IdleTask ==
    [command |-> None, pc |-> "idle", force_refresh |-> FALSE, result |-> None,
     device_serial |-> None, packages |-> <<>>, chunk |-> <<>>, chunk_index |-> 0,
     lines_read |-> 0, start_time |-> 0, emitted |-> <<>>,
     \* history, not program state:
     \* subprocesses run: version probes attempted, `devices -l`, `pm list`
     spawned |-> [version |-> 0, devices |-> 0, list |-> 0],
     live |-> FALSE,        \* the listing subprocess was spawned
     exit_ok |-> FALSE,     \* and it exited with status zero
     \* <<list>> when force_refresh is false and, at the moment the cache was
     \* tested, the last successful pass had stored `list` for this device
     \* less than CACHE_DURATION_SECS ago; <<>> otherwise
     replayable |-> <<>>,
     wrote |-> <<>>,        \* the entry this pass put into the cache
     \* the cache entry served to the caller, its age and the default device
     \* at that moment
     entry |-> <<>>, entry_age |-> 0, current |-> None,
     stderr |-> <<>>,       \* <<stderr>> of `devices -l` when it exited non-zero
     read_failed |-> FALSE, \* the line loop was ended by a failed read
     status |-> <<>>]       \* <<map>> returned by get_cache_status

Emit(t, events) == task[t].emitted \o events

\* the invocations whose spawned task has not finished
RunningTasks == {u \in DOMAIN task : task[u].pc \in {"live", "reading", "wait", "store"}}

\* start_package_stream is called
StartCall(t, force_refresh) ==
    /\ task[t].pc \in {"idle", "done"}
    /\ task' = [task EXCEPT ![t] = [IdleTask EXCEPT !.command = "start_package_stream",
                                                    !.pc = "resolve",
                                                    !.force_refresh = force_refresh]]
    /\ UNCHANGED <<PACKAGE_CACHE, lastStored>>
    /\ UNCHANGED <<envVars, deviceVars, healthVars, pureVars>>

\* a start_package_stream that reports a failed resolution to the UI as a
\* progress event as well
ResolveSerial_EmitsOnFailure(t, listing_ok, stderr) ==
    /\ task[t].pc = "resolve"
    /\ LET adb_path == find_adb_path_async
           serial == FirstReadySerial(DevicesOutput(attached))
           probes == [task[t].spawned EXCEPT !.version = @ + 1]
           Fail(sp, msg) ==
                [task[t] EXCEPT !.pc = "done", !.result = msg, !.spawned = sp,
                    !.emitted = @ \o <<StreamProgress("Error loading packages", 0,
                                                       TRUE, msg)>>]
       IN task' = [task EXCEPT ![t] =
            IF adb_path = None THEN Fail(probes, "ADB not found")
            ELSE LET sp == [probes EXCEPT !.devices = @ + 1] IN
                 IF ~listing_ok
                 THEN [Fail(sp, "ADB command failed") EXCEPT !.stderr = <<stderr>>]
                 ELSE IF serial = None THEN Fail(sp, "No device connected")
                 ELSE [task[t] EXCEPT !.pc = "check", !.device_serial = serial,
                                      !.spawned = sp]]
    /\ UNCHANGED <<PACKAGE_CACHE, lastStored>>
    /\ UNCHANGED <<envVars, deviceVars, healthVars, pureVars>>

\* get_device_serial_async, with the `?` of start_package_stream
ResolveSerial(t, listing_ok, stderr) ==
    /\ task[t].pc = "resolve"
    /\ LET adb_path == find_adb_path_async
           serial == FirstReadySerial(DevicesOutput(attached))
           probes == [task[t].spawned EXCEPT !.version = @ + 1]
           Fail(sp, msg) == [task[t] EXCEPT !.pc = "done", !.result = msg, !.spawned = sp]
       IN task' = [task EXCEPT ![t] =
            IF adb_path = None THEN Fail(probes, "ADB not found")
            ELSE LET sp == [probes EXCEPT !.devices = @ + 1] IN
                 IF ~listing_ok
                 THEN [Fail(sp, "ADB command failed") EXCEPT !.stderr = <<stderr>>]
                 ELSE IF serial = None THEN Fail(sp, "No device connected")
                 ELSE [task[t] EXCEPT !.pc = "check", !.device_serial = serial,
                                      !.spawned = sp]]
    /\ UNCHANGED <<PACKAGE_CACHE, lastStored>>
    /\ UNCHANGED <<envVars, deviceVars, healthVars, pureVars>>

\* the cache block of start_package_stream: on a hit the cached list is
\* cloned and the first progress event emitted; on a miss the task is
\* spawned and the call returns Ok
CheckCache(t) ==
    /\ task[t].pc = "check"
    /\ LET base == [task[t] EXCEPT !.replayable =
                        IF /\ ~task[t].force_refresh
                           /\ lastStored # <<>>
                           /\ lastStored[1].device_serial = task[t].device_serial
                           /\ now - lastStored[1].timestamp < CACHE_DURATION_SECS
                        THEN <<lastStored[1].packages>> ELSE <<>>] IN
       task' = [task EXCEPT ![t] =
            IF CacheHit(PACKAGE_CACHE, task[t].force_refresh, task[t].device_serial)
            THEN [base EXCEPT !.pc = "replay",
                              !.packages = PACKAGE_CACHE[1].packages,
                              !.entry = PACKAGE_CACHE,
                              !.entry_age = Elapsed(PACKAGE_CACHE[1].timestamp),
                              !.current = FirstReadySerial(DevicesOutput(attached)),
                              !.emitted = Emit(t, <<StreamProgress("Loading from cache...",
                                                                   0, FALSE, None)>>)]
            ELSE [base EXCEPT !.pc = "live", !.result = "Ok"]]
    /\ UNCHANGED <<PACKAGE_CACHE, lastStored>>
    /\ UNCHANGED <<envVars, deviceVars, healthVars, pureVars>>

\* a replay chunk event whose running total is not capped at the list length
ReplayChunkEvent_Uncapped(packages, chunk_index) ==
    LET is_final == (chunk_index + 1) * CHUNK_SIZE >= Len(packages)
        total_so_far == (chunk_index + 1) * CHUNK_SIZE
    IN PackageChunk(ChunkOf(packages, chunk_index), chunk_index, total_so_far, is_final)

\* the chunk event of one iteration of the replay loop
ReplayChunkEvent(packages, chunk_index) ==
    LET is_final == (chunk_index + 1) * CHUNK_SIZE >= Len(packages)
        total_so_far == Min((chunk_index + 1) * CHUNK_SIZE, Len(packages))
    IN PackageChunk(ChunkOf(packages, chunk_index), chunk_index, total_so_far, is_final)

\* one iteration of the replay loop, up to its yield
ReplayChunk(t) ==
    /\ task[t].pc = "replay"
    /\ task[t].chunk_index * CHUNK_SIZE < Len(task[t].packages)
    /\ task' = [task EXCEPT
            ![t].chunk_index = @ + 1,
            ![t].emitted = Emit(t, <<ReplayChunkEvent(task[t].packages, task[t].chunk_index)>>)]
    /\ UNCHANGED <<PACKAGE_CACHE, lastStored>>
    /\ UNCHANGED <<envVars, deviceVars, healthVars, pureVars>>

\* the end of the replay: completion and progress events, return Ok
ReplayFinish(t) ==
    /\ task[t].pc = "replay"
    /\ task[t].chunk_index * CHUNK_SIZE >= Len(task[t].packages)
    /\ LET n == Len(task[t].packages) IN
       task' = [task EXCEPT ![t].pc = "done", ![t].result = "Ok",
                            ![t].emitted = Emit(t, <<StreamComplete(n, 0, TRUE),
                                StreamProgress("Loaded (cached)", n, TRUE, None)>>)]
    /\ UNCHANGED <<PACKAGE_CACHE, lastStored>>
    /\ UNCHANGED <<envVars, deviceVars, healthVars, pureVars>>

\* an error event that leaves the stream marked as still running
TaskError_NotComplete(error) ==
    StreamProgress("Error loading packages", 0, FALSE, error)

\* the Err arm of the spawned task
TaskError(error) ==
    StreamProgress("Error loading packages", 0, TRUE, error)

\* stream_packages_from_adb up to the spawn of the listing subprocess
LiveBegin(t, spawn_ok) ==
    /\ task[t].pc = "live"
    /\ LET probes == [task[t].spawned EXCEPT !.version = @ + 1] IN
       task' = [task EXCEPT ![t] =
            IF find_adb_path_async = None
            THEN [task[t] EXCEPT !.pc = "done", !.spawned = probes,
                                 !.emitted = Emit(t, <<TaskError("ADB not found")>>)]
            ELSE LET started == [task[t] EXCEPT
                        !.spawned = probes,
                        !.start_time = now,
                        !.emitted = Emit(t, <<StreamProgress("Starting package scan...",
                                                             0, FALSE, None)>>)]
                 IN IF ~spawn_ok
                    THEN [started EXCEPT !.pc = "done",
                            !.emitted = started.emitted \o
                                <<TaskError("Failed to spawn ADB process")>>]
                    ELSE [started EXCEPT !.pc = "reading", !.live = TRUE,
                                         !.spawned = [probes EXCEPT !.list = @ + 1]]]
    /\ UNCHANGED <<PACKAGE_CACHE, lastStored>>
    /\ UNCHANGED <<envVars, deviceVars, healthVars, pureVars>>


\* The line loop runs until the in-flight chunk is full: the chunk and a
\* progress event are emitted, the chunk cleared, and the task yields.
ReadChunk(t) ==
    /\ task[t].pc = "reading"
    /\ task[t].chunk_index < MaxChunks
    /\ IsReady(task[t].device_serial, attached)
    /\ LET r == ReadLines(task[t].device_serial, task[t].packages, task[t].chunk,
                          task[t].lines_read, CHUNK_SIZE)
           all_packages == r[1]
       IN task' = [task EXCEPT
            ![t].packages = all_packages,
            ![t].chunk = <<>>,
            ![t].lines_read = r[3],
            ![t].chunk_index = @ + 1,
            ![t].emitted = Emit(t, <<PackageChunk(r[2], task[t].chunk_index,
                                                 Len(all_packages), FALSE),
                                     StreamProgress("Loading packages...", Len(all_packages),
                                                    FALSE, None)>>)]
    /\ UNCHANGED <<PACKAGE_CACHE, lastStored>>
    /\ UNCHANGED <<envVars, deviceVars, healthVars, pureVars>>

\* The line loop ends after `tail` more records: next_line() returned
\* Ok(None) at the end of the output.
ReadEnd(t, tail) ==
    /\ task[t].pc = "reading"
    /\ tail > 0 => IsReady(task[t].device_serial, attached)
    /\ LET r == ReadLines(task[t].device_serial, task[t].packages, task[t].chunk,
                          task[t].lines_read, tail)
       IN task' = [task EXCEPT ![t].pc = "wait", ![t].packages = r[1],
                               ![t].chunk = r[2], ![t].lines_read = r[3]]
    /\ UNCHANGED <<PACKAGE_CACHE, lastStored>>
    /\ UNCHANGED <<envVars, deviceVars, healthVars, pureVars>>

\* The line loop ends after `tail` more records because next_line() returned
\* Err: `while let Ok(Some(line))` does not match and the function goes on
\* to child.wait() as it does at the end of the output.
ReadFail(t, tail) ==
    /\ task[t].pc = "reading"
    /\ IsReady(task[t].device_serial, attached)
    /\ LET r == ReadLines(task[t].device_serial, task[t].packages, task[t].chunk,
                          task[t].lines_read, tail)
       IN task' = [task EXCEPT ![t].pc = "wait", ![t].packages = r[1],
                               ![t].chunk = r[2], ![t].lines_read = r[3],
                               ![t].read_failed = TRUE]
    /\ UNCHANGED <<PACKAGE_CACHE, lastStored>>
    /\ UNCHANGED <<envVars, deviceVars, healthVars, pureVars>>

\* a pass that forgets the trailing chunk
Remaining_Dropped(chunk, chunk_index, total_so_far) == <<>>

\* "Emit remaining packages": the trailing chunk, if there is one
Remaining(chunk, chunk_index, total_so_far) ==
    IF chunk # <<>> THEN <<PackageChunk(chunk, chunk_index, total_so_far, TRUE)>>
    ELSE <<>>

\* child.wait() returns; on a zero status the rest of
\* stream_packages_from_adb runs, otherwise the Err arm of the task
WaitExit(t, success) ==
    /\ task[t].pc = "wait"
    /\ success => IsReady(task[t].device_serial, attached)
    /\ LET all_packages == task[t].packages
           chunk == task[t].chunk
           n == Len(all_packages)
           remaining == Remaining(chunk, task[t].chunk_index, n)
       IN task' = [task EXCEPT ![t] =
            IF ~success
            THEN [task[t] EXCEPT !.pc = "done",
                                 !.emitted = Emit(t, <<TaskError("ADB command failed")>>)]
            ELSE [task[t] EXCEPT !.pc = "store", !.exit_ok = TRUE,
                     !.packages = SortByName(all_packages),
                     !.emitted = Emit(t, remaining \o
                        <<StreamComplete(n, (now - task[t].start_time) * 1000, FALSE),
                          StreamProgress("Loaded", n, TRUE, None)>>)]]
    /\ UNCHANGED <<PACKAGE_CACHE, lastStored>>
    /\ UNCHANGED <<envVars, deviceVars, healthVars, pureVars>>

\* a task that adds its list to the list already in the cache
StoreCache_Merges(t) ==
    /\ task[t].pc = "store"
    /\ LET before == IF PACKAGE_CACHE = <<>> THEN <<>> ELSE PACKAGE_CACHE[1].packages
           entry == CachedPackages(before \o task[t].packages, now, task[t].device_serial)
       IN
       /\ PACKAGE_CACHE' = <<entry>>
       /\ lastStored' = <<entry>>
       /\ task' = [task EXCEPT ![t].pc = "done", ![t].wrote = <<entry>>]
    /\ UNCHANGED <<envVars, deviceVars, healthVars, pureVars>>

\* the Ok arm of the spawned task
StoreCache(t) ==
    /\ task[t].pc = "store"
    /\ LET entry == CachedPackages(task[t].packages, now, task[t].device_serial) IN
       /\ PACKAGE_CACHE' = <<entry>>
       /\ lastStored' = <<entry>>
       /\ task' = [task EXCEPT ![t].pc = "done", ![t].wrote = <<entry>>]
    /\ UNCHANGED <<envVars, deviceVars, healthVars, pureVars>>

\* get_cached_packages, called and answered in one step
get_cached_packages(t) ==
    /\ task[t].pc \in {"idle", "done"}
    /\ task' = [task EXCEPT ![t] =
            [IdleTask EXCEPT !.command = "get_cached_packages", !.pc = "done",
                !.result = IF PACKAGE_CACHE # <<>> THEN "Ok"
                           ELSE "No cached packages available",
                !.packages = IF PACKAGE_CACHE # <<>> THEN PACKAGE_CACHE[1].packages
                             ELSE <<>>,
                !.entry = PACKAGE_CACHE,
                !.entry_age = IF PACKAGE_CACHE # <<>>
                              THEN Elapsed(PACKAGE_CACHE[1].timestamp) ELSE 0,
                !.current = FirstReadySerial(DevicesOutput(attached))]]
    /\ UNCHANGED <<PACKAGE_CACHE, lastStored>>
    /\ UNCHANGED <<envVars, deviceVars, healthVars, pureVars>>

\* the map get_cache_status builds from the cache
CacheStatus(cache) ==
    IF cache # <<>>
    THEN [has_cache |-> TRUE,
          package_count |-> Len(cache[1].packages),
          device_serial |-> cache[1].device_serial,
          age_seconds |-> Elapsed(cache[1].timestamp),
          is_expired |-> Elapsed(cache[1].timestamp) > CACHE_DURATION_SECS]
    ELSE [has_cache |-> FALSE]

\* get_cache_status, called and answered in one step
get_cache_status(t) ==
    /\ task[t].pc \in {"idle", "done"}
    /\ task' = [task EXCEPT ![t] =
            [IdleTask EXCEPT !.command = "get_cache_status", !.pc = "done",
                             !.result = "Ok",
                             !.status = <<CacheStatus(PACKAGE_CACHE)>>]]
    /\ UNCHANGED <<PACKAGE_CACHE, lastStored>>
    /\ UNCHANGED <<envVars, deviceVars, healthVars, pureVars>>

\* clear_package_cache
clear_package_cache ==
    /\ PACKAGE_CACHE # <<>>
    /\ PACKAGE_CACHE' = <<>>
    /\ lastStored' = <<>>
    /\ UNCHANGED task
    /\ UNCHANGED <<envVars, deviceVars, healthVars, pureVars>>

\* ===== the environment =====

\* time passes
Tick(d, horizon) ==
    /\ now + d <= horizon
    /\ now' = now + d
    /\ UNCHANGED <<attached, bridge>>
    /\ UNCHANGED <<streamVars, deviceVars, healthVars, pureVars>>

\* devices are plugged, unplugged or change state
Replug(listing) ==
    /\ listing # attached
    /\ attached' = listing
    /\ UNCHANGED <<now, bridge>>
    /\ UNCHANGED <<streamVars, deviceVars, healthVars, pureVars>>

\* ===== adb.rs: bridge locator, executor and device registry =====

DEVICE_CACHE_DURATION == 5
\* DeviceCache::new backdates last_update by this much
DEVICE_CACHE_BACKDATE == 10

Callers == {"ui"}

\* what may be attached while devices are listed
DeviceListings ==
    { <<>>,
      <<[serial |-> "A", state |-> "device"]>>,
      <<[serial |-> "A", state |-> "offline"], [serial |-> "B", state |-> "device"]>>,
      <<[serial |-> "A", state |-> "unauthorized"], [serial |-> "B", state |-> "recovery"]>>,
      <<[serial |-> "B", state |-> "device"], [serial |-> "A", state |-> "device"]>> }

\* stderr of a failed bridge command, as the set of known phrases it contains
StderrTexts ==
    { {}, {"device unauthorized"}, {"device offline", "device unauthorized"},
      {"cannot connect to daemon"} }

\* seconds the clock may advance in one step of the registry's model
DeviceTicks == {2, DEVICE_CACHE_DURATION}
MaxDeviceTime == 7

AdbOk(value) == [kind |-> "Ok", value |-> value]
AdbErr(type, msg) == [kind |-> "Err", error |-> [type |-> type, msg |-> msg]]
NoResult == [kind |-> None]

\* a locator that takes the bridge to be on the PATH without looking
find_adb_path_Unchecked == "adb"

\* find_adb_path: the version probe, then the well-known paths
find_adb_path ==
    IF bridge = "in_path" THEN "adb"
    ELSE IF bridge = "at_path" THEN "/usr/bin/adb"
    ELSE None

\* a classification without the branch for unauthorized devices
ClassifyStderr_NoUnauthorized(error_msg) ==
    IF "no devices/emulators found" \in error_msg \/ "device not found" \in error_msg
    THEN AdbErr("NoDeviceConnected", {})
    ELSE IF "device offline" \in error_msg THEN AdbErr("DeviceOffline", {})
    ELSE IF "cannot connect to daemon" \in error_msg \/ "daemon not running" \in error_msg
    THEN AdbErr("AdbServerNotRunning", {})
    ELSE IF "permission denied" \in error_msg \/ "access denied" \in error_msg
    THEN AdbErr("PermissionDenied", {})
    ELSE AdbErr("CommandFailed", error_msg)

\* a classification that tests for unauthorized before offline
ClassifyStderr_UnauthorizedFirst(error_msg) ==
    IF "no devices/emulators found" \in error_msg \/ "device not found" \in error_msg
    THEN AdbErr("NoDeviceConnected", {})
    ELSE IF "device unauthorized" \in error_msg THEN AdbErr("DeviceUnauthorized", {})
    ELSE IF "device offline" \in error_msg THEN AdbErr("DeviceOffline", {})
    ELSE IF "cannot connect to daemon" \in error_msg \/ "daemon not running" \in error_msg
    THEN AdbErr("AdbServerNotRunning", {})
    ELSE IF "permission denied" \in error_msg \/ "access denied" \in error_msg
    THEN AdbErr("PermissionDenied", {})
    ELSE AdbErr("CommandFailed", error_msg)

\* the error patterns of execute_adb_command, in the order they are tested
ClassifyStderr(error_msg) ==
    IF "no devices/emulators found" \in error_msg \/ "device not found" \in error_msg
    THEN AdbErr("NoDeviceConnected", {})
    ELSE IF "device offline" \in error_msg THEN AdbErr("DeviceOffline", {})
    ELSE IF "device unauthorized" \in error_msg THEN AdbErr("DeviceUnauthorized", {})
    ELSE IF "cannot connect to daemon" \in error_msg \/ "daemon not running" \in error_msg
    THEN AdbErr("AdbServerNotRunning", {})
    ELSE IF "permission denied" \in error_msg \/ "access denied" \in error_msg
    THEN AdbErr("PermissionDenied", {})
    ELSE AdbErr("CommandFailed", error_msg)

\* impl Display for AdbError: the message the user is shown
Display(error) ==
    CASE error.type = "NoDeviceConnected" ->
            "No Android device connected. Please connect a device via USB or TCP."
      [] error.type = "AdbNotFound" ->
            "ADB (Android Debug Bridge) not found. Please install Android SDK Platform Tools."
      [] error.type = "AdbServerNotRunning" ->
            "ADB server is not running. Try running 'adb start-server'."
      [] error.type = "DeviceOffline" ->
            "Device is offline. Please check the USB connection or reconnect the device."
      [] error.type = "DeviceUnauthorized" ->
            "Device is unauthorized. Please check the device screen for USB debugging authorization prompt."
      [] error.type = "PermissionDenied" ->
            "Permission denied. Try running the application with elevated privileges."
      [] error.type = "CommandFailed" -> "ADB command failed: {msg}"

\* the value of the last key:value column, from the third column on
RECURSIVE Property(_, _, _)
Property(parts, key, k) ==
    IF k < 3 THEN None
    ELSE IF Len(parts[k]) = 2 /\ parts[k][1] = key THEN parts[k][2]
    ELSE Property(parts, key, k - 1)

\* parts[i].to_string(): the text of a column; a column that reads
\* key:value, such as the serial 192.168.1.5:5555, is kept as the pair
ColumnText(column) == IF Len(column) = 1 THEN column[1] ELSE column

DeviceInfo(parts) ==
    [serial |-> ColumnText(parts[1]), state |-> ColumnText(parts[2]),
     model |-> Property(parts, "model", Len(parts)),
     product |-> Property(parts, "product", Len(parts)),
     device |-> Property(parts, "device", Len(parts)),
     transport_id |-> Property(parts, "transport_id", Len(parts))]

\* parse_adb_devices
RECURSIVE parse_adb_devices(_)
parse_adb_devices(lines) ==
    IF lines = <<>> THEN <<>>
    ELSE LET parts == Head(lines) IN
         IF SkippedLine(parts) \/ Len(parts) < 2 THEN parse_adb_devices(Tail(lines))
         ELSE <<DeviceInfo(parts)>> \o parse_adb_devices(Tail(lines))

\* a registry that forgets to filter
ConnectedDevices_Unfiltered(devices) == devices

\* "Filter only connected devices (exclude offline, unauthorized)"
ConnectedDevices(devices) == SelectSeq(devices, LAMBDA d : d.state = "device")

DeviceCacheNew == [devices |-> <<>>, last_update |-> 0 - DEVICE_CACHE_BACKDATE]

\* an expiry test that already fires at the TTL itself
DeviceCacheExpired_AtTTL(cache) == Elapsed(cache.last_update) >= DEVICE_CACHE_DURATION

\* DeviceCache::is_expired
DeviceCacheExpired(cache) == Elapsed(cache.last_update) > DEVICE_CACHE_DURATION

\* pc: "idle", "enter" (about to lock DEVICE_CACHE), "running" (the lock is
\* held and `devices -l` runs), "done"
IdleCall ==
    [command |-> None, pc |-> "idle", force_refresh |-> FALSE, result |-> NoResult,
     \* history, not program state:
     at |-> 0,          \* when the call took the lock on DEVICE_CACHE
     spawned |-> 0,     \* `devices -l` subprocesses it ran
     probes |-> 0,      \* locator searches it ran
     cleared |-> FALSE, \* clear_device_cache ran since the call was made
     stderr |-> <<>>,   \* <<stderr>> of the command when it exited non-zero
     listed |-> <<>>,   \* <<devices>> when get_devices came to Ok(devices)
     \* the caller's previous call when that was a get_devices(false) with no
     \* clear_device_cache since
     prev |-> [valid |-> FALSE, at |-> 0, spawned |-> 0, failed |-> FALSE]]

\* get_devices or get_default_device is called
CallRegistry(c, command, force_refresh) ==
    /\ call[c].pc \in {"idle", "done"}
    /\ command = "get_default_device" => ~force_refresh
    /\ LET old == call[c] IN
       call' = [call EXCEPT ![c] = [IdleCall EXCEPT
            !.command = command, !.pc = "enter", !.force_refresh = force_refresh,
            !.prev = IF old.command = "get_devices" /\ ~old.force_refresh /\ ~old.cleared
                     THEN [valid |-> TRUE, at |-> old.at, spawned |-> old.spawned,
                           failed |-> old.result.kind = "Err"]
                     ELSE IdleCall.prev]]
    /\ UNCHANGED <<ADB_PATH, DEVICE_CACHE, deviceLock>>
    /\ UNCHANGED <<envVars, streamVars, healthVars, pureVars>>

\* a default device taken from the end of the list
get_default_device_Last(devices_result) ==
    IF devices_result.kind = "Err" THEN devices_result
    ELSE IF devices_result.value = <<>> THEN AdbErr("NoDeviceConnected", {})
    ELSE AdbOk(devices_result.value[Len(devices_result.value)].serial)

\* the tail of get_default_device, applied to what get_devices(false) returned
get_default_device(devices_result) ==
    IF devices_result.kind = "Err" THEN devices_result
    ELSE IF devices_result.value = <<>> THEN AdbErr("NoDeviceConnected", {})
    ELSE AdbOk(devices_result.value[1].serial)

Returned(c, devices_result) ==
    IF call[c].command = "get_default_device" THEN get_default_device(devices_result)
    ELSE devices_result

\* a get_devices that gives the lock back before it runs `devices -l`
GetDevicesEnter_Unlocked(c) ==
    /\ call[c].pc = "enter"
    /\ deviceLock = None
    /\ IF ~call[c].force_refresh /\ ~DeviceCacheExpired(DEVICE_CACHE)
       THEN /\ call' = [call EXCEPT ![c].pc = "done", ![c].at = now,
                                    ![c].listed = <<DEVICE_CACHE.devices>>,
                                    ![c].result = Returned(c, AdbOk(DEVICE_CACHE.devices))]
            /\ UNCHANGED ADB_PATH
       ELSE LET adb_path == IF ADB_PATH = <<>> THEN <<find_adb_path>> ELSE ADB_PATH
                probes == IF ADB_PATH = <<>> THEN 1 ELSE 0
            IN /\ ADB_PATH' = adb_path
               /\ IF adb_path[1] = None
                  THEN call' = [call EXCEPT ![c].pc = "done", ![c].at = now, ![c].probes = probes,
                                    ![c].result = Returned(c, AdbErr("AdbNotFound", {}))]
                  ELSE call' = [call EXCEPT ![c].pc = "running", ![c].at = now, ![c].probes = probes,
                                               ![c].spawned = @ + 1]
    /\ UNCHANGED <<DEVICE_CACHE, deviceLock>>
    /\ UNCHANGED <<envVars, streamVars, healthVars, pureVars>>

\* get_devices takes the lock: it answers from the cache, or fails for want
\* of a bridge, or spawns `devices -l` and keeps the lock while it runs
GetDevicesEnter(c) ==
    /\ call[c].pc = "enter"
    /\ deviceLock = None
    /\ IF ~call[c].force_refresh /\ ~DeviceCacheExpired(DEVICE_CACHE)
       THEN /\ call' = [call EXCEPT ![c].pc = "done", ![c].at = now,
                                    ![c].listed = <<DEVICE_CACHE.devices>>,
                                    ![c].result = Returned(c, AdbOk(DEVICE_CACHE.devices))]
            /\ UNCHANGED <<ADB_PATH, deviceLock>>
       ELSE LET adb_path == IF ADB_PATH = <<>> THEN <<find_adb_path>> ELSE ADB_PATH
                probes == IF ADB_PATH = <<>> THEN 1 ELSE 0
            IN /\ ADB_PATH' = adb_path
               /\ IF adb_path[1] = None
                  THEN /\ call' = [call EXCEPT ![c].pc = "done", ![c].at = now, ![c].probes = probes,
                                    ![c].result = Returned(c, AdbErr("AdbNotFound", {}))]
                       /\ UNCHANGED deviceLock
                  ELSE /\ call' = [call EXCEPT ![c].pc = "running", ![c].at = now, ![c].probes = probes,
                                               ![c].spawned = @ + 1]
                       /\ deviceLock' = c
    /\ UNCHANGED DEVICE_CACHE
    /\ UNCHANGED <<envVars, streamVars, healthVars, pureVars>>

\* `devices -l` exits with status zero: parse, filter, update the cache
GetDevicesOk(c) ==
    /\ call[c].pc = "running"
    /\ LET devices == parse_adb_devices(DevicesOutput(attached))
           connected_devices == ConnectedDevices(devices)
       IN /\ DEVICE_CACHE' = [devices |-> connected_devices, last_update |-> now]
          /\ call' = [call EXCEPT ![c].pc = "done",
                                  ![c].listed = <<connected_devices>>,
                                  ![c].result = Returned(c, AdbOk(connected_devices))]
    /\ deviceLock' = None
    /\ UNCHANGED ADB_PATH
    /\ UNCHANGED <<envVars, streamVars, healthVars, pureVars>>

\* a get_devices that falls back to the cached list when the command fails
GetDevicesFail_ServesStale(c, stderr) ==
    /\ call[c].pc = "running"
    /\ call' = [call EXCEPT ![c].pc = "done", ![c].stderr = <<stderr>>,
                            ![c].result = AdbOk(DEVICE_CACHE.devices)]
    /\ deviceLock' = None
    /\ UNCHANGED <<ADB_PATH, DEVICE_CACHE>>
    /\ UNCHANGED <<envVars, streamVars, healthVars, pureVars>>

\* `devices -l` exits non-zero with the given stderr
GetDevicesFail(c, stderr) ==
    /\ call[c].pc = "running"
    /\ call' = [call EXCEPT ![c].pc = "done", ![c].stderr = <<stderr>>,
                            ![c].result = Returned(c, ClassifyStderr(stderr))]
    /\ deviceLock' = None
    /\ UNCHANGED <<ADB_PATH, DEVICE_CACHE>>
    /\ UNCHANGED <<envVars, streamVars, healthVars, pureVars>>

\* the phrases execute_adb_command looks for, and one it does not know
Phrases ==
    {"no devices/emulators found", "device not found", "device offline",
     "device unauthorized", "cannot connect to daemon", "daemon not running",
     "permission denied", "access denied", "error: closed"}

\* execute_adb_command(args) is called: without a bridge it fails at once,
\* else the command is spawned
ExecuteBegin(c) ==
    /\ call[c].pc \in {"idle", "done"}
    /\ LET adb_path == IF ADB_PATH = <<>> THEN <<find_adb_path>> ELSE ADB_PATH
           started == [IdleCall EXCEPT !.command = "execute_adb_command", !.at = now,
                            !.probes = IF ADB_PATH = <<>> THEN 1 ELSE 0]
       IN /\ ADB_PATH' = adb_path
          /\ call' = [call EXCEPT ![c] =
                IF adb_path[1] = None
                THEN [started EXCEPT !.pc = "done", !.result = AdbErr("AdbNotFound", {})]
                ELSE [started EXCEPT !.pc = "exec", !.spawned = 1]]
    /\ UNCHANGED <<DEVICE_CACHE, deviceLock>>
    /\ UNCHANGED <<envVars, streamVars, healthVars, pureVars>>

\* the command could not be run at all
ExecuteIoError(c) ==
    /\ call[c].pc = "exec"
    /\ call' = [call EXCEPT ![c].pc = "done",
            ![c].result = AdbErr("CommandFailed", {"Failed to execute ADB"})]
    /\ UNCHANGED <<ADB_PATH, DEVICE_CACHE, deviceLock>>
    /\ UNCHANGED <<envVars, streamVars, healthVars, pureVars>>

\* the command exits with status zero
ExecuteOk(c) ==
    /\ call[c].pc = "exec"
    /\ call' = [call EXCEPT ![c].pc = "done", ![c].result = AdbOk("stdout")]
    /\ UNCHANGED <<ADB_PATH, DEVICE_CACHE, deviceLock>>
    /\ UNCHANGED <<envVars, streamVars, healthVars, pureVars>>

\* the command exits non-zero with the given stderr
ExecuteFail(c, stderr) ==
    /\ call[c].pc = "exec"
    /\ call' = [call EXCEPT ![c].pc = "done", ![c].stderr = <<stderr>>,
                            ![c].result = ClassifyStderr(stderr)]
    /\ UNCHANGED <<ADB_PATH, DEVICE_CACHE, deviceLock>>
    /\ UNCHANGED <<envVars, streamVars, healthVars, pureVars>>

\* clear_device_cache
clear_device_cache ==
    /\ deviceLock = None
    /\ DEVICE_CACHE.last_update # now - DEVICE_CACHE_BACKDATE
    /\ DEVICE_CACHE' = [DEVICE_CACHE EXCEPT !.last_update = now - DEVICE_CACHE_BACKDATE]
    /\ call' = [c \in DOMAIN call |-> [call[c] EXCEPT !.cleared = TRUE]]
    /\ UNCHANGED <<ADB_PATH, deviceLock>>
    /\ UNCHANGED <<envVars, streamVars, healthVars, pureVars>>

\* ===== system_health.rs: the health collector =====

\* the metrics in the order collect_system_health handles them
Metrics == <<"storage", "memory", "cpu", "services", "app_counts", "thermal", "battery">>

\* HealthCache::new: the TTL of each slot, in seconds
TTL == [storage |-> 3, memory |-> 2, cpu |-> 3, services |-> 10,
        battery |-> 30, thermal |-> 5, app_counts |-> 60]

\* the SystemHealth field a slot is copied to
HealthField == [storage |-> "storage", memory |-> "memory", cpu |-> "cpu",
                services |-> "services_count", battery |-> "battery_drainers",
                thermal |-> "thermal", app_counts |-> "app_counts"]

\* the metrics after which a partial update is emitted
PartialAfter == {"storage", "memory", "services"}

Passes == {"monitor", "on_demand"}

\* what is attached while health is collected, in the order in which it
\* happens: one device, then none, then another device
HealthListings ==
    << <<[serial |-> "A", state |-> "device"]>>,
       <<>>,
       <<[serial |-> "B", state |-> "device"]>> >>

\* A metric value is known by the device it was read from; T::default() was
\* read from none.
DefaultMetric == [origin |-> None]
MetricFrom(serial) == [origin |-> serial]

\* the device a bare `adb <args>` talks to: the program named adb on the
\* PATH, no -s option, so the only attached device when it is ready
AdbTarget ==
    IF bridge = "in_path" /\ Len(attached) = 1 /\ attached[1].state = "device"
    THEN <<attached[1].serial>>
    ELSE <<>>

\* run_adb_command: <<>> is Err, <<serial>> is Ok with that device's answer
run_adb_command == AdbTarget

\* CachedMetric::new
CachedMetricNew(ttl_secs) ==
    [data |-> DefaultMetric, updated_at |-> now - (ttl_secs + 1), ttl |-> ttl_secs]

\* a staleness test that ignores the slot's own TTL
is_stale_SharedTTL(metric) == Elapsed(metric.updated_at) > 3

\* CachedMetric::is_stale
is_stale(metric) == Elapsed(metric.updated_at) > metric.ttl

\* CachedMetric::update
CachedMetricUpdate(metric, data) == [metric EXCEPT !.data = data, !.updated_at = now]

\* HealthCache::new
HealthCacheNew ==
    [storage |-> CachedMetricNew(TTL.storage), memory |-> CachedMetricNew(TTL.memory),
     cpu |-> CachedMetricNew(TTL.cpu), services |-> CachedMetricNew(TTL.services),
     battery |-> CachedMetricNew(TTL.battery), thermal |-> CachedMetricNew(TTL.thermal),
     app_counts |-> CachedMetricNew(TTL.app_counts), device_id |-> ""]

\* an invalidation that leaves the battery slot alone
invalidate_for_device_KeepsBattery(cache, device_id) ==
    IF cache.device_id # device_id
    THEN [HealthCacheNew EXCEPT !.device_id = device_id, !.battery = cache.battery]
    ELSE cache

\* HealthCache::invalidate_for_device
invalidate_for_device(cache, device_id) ==
    IF cache.device_id # device_id
    THEN [HealthCacheNew EXCEPT !.device_id = device_id]
    ELSE cache

\* SystemHealth::default()
DefaultHealth ==
    [storage |-> DefaultMetric, memory |-> DefaultMetric, cpu |-> DefaultMetric,
     services_count |-> DefaultMetric, battery_drainers |-> DefaultMetric,
     thermal |-> DefaultMetric, app_counts |-> DefaultMetric,
     timestamp |-> 0, device_id |-> ""]

\* an event that is always marked complete
HealthUpdateEvent_AlwaysComplete(health, metrics_updated, is_complete) ==
    [health |-> health, metrics_updated |-> metrics_updated, is_complete |-> TRUE]

\* an event that does not say which metrics were updated
HealthUpdateEvent_NoNames(health, metrics_updated, is_complete) ==
    [health |-> health, metrics_updated |-> <<>>, is_complete |-> is_complete]

HealthUpdateEvent(health, metrics_updated, is_complete) ==
    [health |-> health, metrics_updated |-> metrics_updated, is_complete |-> is_complete]

\* A pass runs from one await to the next in one step.  pc: "idle",
\* "serial" (get-serialno runs), "fetch" (the command of Metrics[metric]
\* runs), "done".
IdlePass ==
    [pc |-> "idle", metric |-> 1, device_id |-> "",
     health |-> DefaultHealth, updated_metrics |-> <<>>,
     emitted |-> <<>>,     \* the system_health_update events of this pass
     returned |-> <<>>,    \* <<health>> once the pass has returned Ok(health)
     failed |-> {},        \* history: the metrics whose fetch failed in this pass
     succeeded |-> {},     \* history: the metrics whose fetch succeeded in it
     ages |-> <<>>,        \* history: the age of each slot when it was tested
     \* history of the monitor loop: its iterations so far and the answer to
     \* get-state in the last one, <<>> for Err and <<state>> for Ok
     polls |-> 0, polled |-> <<>>]

\* health.<field> = cache.<metric>.get(), then the partial update where
\* there is one; after the last metric the complete update and Ok(health)
TakeMetric(cache, p) ==
    LET m == Metrics[p.metric]
        health == [p.health EXCEPT ![HealthField[m]] = cache[m].data]
        last == p.metric = Len(Metrics)
        events == IF last \/ m \in PartialAfter
                  THEN <<HealthUpdateEvent(health, p.updated_metrics, last)>>
                  ELSE <<>>
    IN [p EXCEPT !.health = health,
                 !.emitted = @ \o events,
                 !.returned = IF last THEN <<health>> ELSE <<>>,
                 !.pc = IF last THEN "done" ELSE "check",
                 !.metric = IF last THEN @ ELSE @ + 1]

\* from the staleness test of Metrics[p.metric] on: a stale metric is
\* fetched, which suspends the pass; any other is taken from the cache
RECURSIVE Collect(_, _)
Collect(cache, p) ==
    IF p.pc = "done" THEN p
    ELSE LET checked == [p EXCEPT !.ages = Append(@, Elapsed(cache[Metrics[p.metric]].updated_at))] IN
         IF is_stale(cache[Metrics[p.metric]]) THEN [checked EXCEPT !.pc = "fetch"]
         ELSE Collect(cache, TakeMetric(cache, checked))

\* get_system_health is invoked, or the monitor loop finds get-state
\* answering "device" and starts a pass
BeginPass(p) ==
    /\ pass[p].pc \in {"idle", "done"}
    /\ p = "monitor" => run_adb_command # <<>>
    /\ pass' = [pass EXCEPT ![p] =
            [IdlePass EXCEPT !.pc = "serial", !.health.timestamp = now]]
    /\ UNCHANGED HEALTH_CACHE
    /\ UNCHANGED <<envVars, streamVars, deviceVars, pureVars>>

\* get-serialno returns; the cache is invalidated for the serial it printed
\* and the pass goes on to its first stale metric
SerialDone(p) ==
    /\ pass[p].pc = "serial"
    /\ LET output == run_adb_command
           device_id == IF output # <<>> THEN output[1] ELSE ""
           cache == invalidate_for_device(HEALTH_CACHE, device_id)
       IN /\ HEALTH_CACHE' = cache
          /\ pass' = [pass EXCEPT ![p] = Collect(cache,
                [@ EXCEPT !.pc = "check", !.metric = 1, !.device_id = device_id,
                          !.health.device_id = device_id])]
    /\ UNCHANGED <<envVars, streamVars, deviceVars, pureVars>>

\* the metric's command returns: an Ok value updates the slot, an error is
\* dropped; the slot is copied to the snapshot and the pass goes on
FetchDone(p) ==
    /\ pass[p].pc = "fetch"
    /\ LET m == Metrics[pass[p].metric]
           output == run_adb_command
           cache == IF output = <<>> THEN HEALTH_CACHE
                    ELSE [HEALTH_CACHE EXCEPT
                            ![m] = CachedMetricUpdate(@, MetricFrom(output[1]))]
           updated == IF output = <<>> THEN [pass[p] EXCEPT !.failed = @ \cup {m}]
                      ELSE [pass[p] EXCEPT !.updated_metrics = Append(@, m),
                                           !.succeeded = @ \cup {m}]
       IN /\ HEALTH_CACHE' = cache
          /\ pass' = [pass EXCEPT ![p] = Collect(cache, TakeMetric(cache, updated))]
    /\ UNCHANGED <<envVars, streamVars, deviceVars, pureVars>>

\* the most iterations of the monitor loop that are followed
MaxPolls == 2

\* what is attached while the monitor polls
MonitorListings ==
    { <<>>,
      <<[serial |-> "A", state |-> "device"]>>,
      <<[serial |-> "A", state |-> "offline"]>>,
      <<[serial |-> "A", state |-> "device"], [serial |-> "B", state |-> "device"]>> }

\* run_adb_command(&["get-state"]): the state of the only attached device;
\* Err without a bridge on the PATH, without a device or with several
GetState ==
    IF bridge = "in_path" /\ Len(attached) = 1 THEN <<attached[1].state>> ELSE <<>>

\* the test the loop makes on the answer
DeviceAnswered_AnyState(output) == output # <<>>

\* if let Ok(output) = ... { if output.trim() == "device" { ... } }
DeviceAnswered(output) == output = <<"device">>

\* one iteration of the loop of start_health_monitor up to its first await
\* after get-state: a pass is begun, or the iteration ends in the sleep
MonitorPoll ==
    /\ pass["monitor"].pc \in {"idle", "done"}
    /\ pass["monitor"].polls < MaxPolls
    /\ LET output == GetState
           polls == pass["monitor"].polls + 1
       IN pass' = [pass EXCEPT !["monitor"] =
            IF DeviceAnswered(output)
            THEN [IdlePass EXCEPT !.pc = "serial", !.health.timestamp = now,
                                  !.polls = polls, !.polled = output]
            ELSE [@ EXCEPT !.polls = polls, !.polled = output]]
    /\ UNCHANGED HEALTH_CACHE
    /\ UNCHANGED <<envVars, streamVars, deviceVars, pureVars>>

\* clear_health_cache
clear_health_cache ==
    /\ HEALTH_CACHE # HealthCacheNew
    /\ HEALTH_CACHE' = HealthCacheNew
    /\ UNCHANGED pass
    /\ UNCHANGED <<envVars, streamVars, deviceVars, pureVars>>

\* ===== system_health.rs: the storage and memory parsers =====
\* A column of a `df` line or a value of /proc/meminfo is <<n>> when it
\* parses as u64 and <<>> when it does not.  An f32 percentage is kept as
\* the fraction <<numerator, denominator>> in lowest terms.

RECURSIVE Gcd(_, _)
Gcd(a, b) == IF b = 0 THEN a ELSE Gcd(b, a % b)

Fraction(numerator, denominator) ==
    LET g == Gcd(numerator, denominator) IN <<numerator \div g, denominator \div g>>

\* parts[i].parse().unwrap_or(0)
ParseOrZero(column) == IF column = <<>> THEN 0 ELSE column[1]

\* a percentage computed without the guard: the f32 division by 0.0 gives
\* NaN or infinity, kept here as a fraction with denominator 0
UsagePercent_Unguarded(used_mb, total_mb) ==
    IF total_mb > 0 THEN Fraction(used_mb * 100, total_mb) ELSE <<used_mb * 100, 0>>

\* if total_mb > 0 { (used_mb as f32 / total_mb as f32) * 100.0 } else { 0.0 }
UsagePercent(used_mb, total_mb) ==
    IF total_mb > 0 THEN Fraction(used_mb * 100, total_mb) ELSE <<0, 1>>

StorageInfo(total_mb, used_mb, free_mb) ==
    [total_mb |-> total_mb, used_mb |-> used_mb, free_mb |-> free_mb,
     usage_percent |-> UsagePercent(used_mb, total_mb)]

\* parse_size_to_mb.  A size of `df -h` is [unit, tenths]: the number in
\* tenths before a last character K, M, G or T; or [unit |-> "digit",
\* tenths] for a string of digits only, whose last digit is taken for the
\* unit and dropped; or [unit |-> "word"] for anything else.
parse_size_to_mb(size) ==
    IF size.unit = "K" THEN size.tenths \div 10240
    ELSE IF size.unit = "M" THEN size.tenths \div 10
    ELSE IF size.unit = "G" THEN (size.tenths * 1024) \div 10
    ELSE IF size.unit = "T" THEN (size.tenths * 1024 * 1024) \div 10
    ELSE IF size.unit = "digit" THEN size.tenths \div 100
    ELSE 0

\* fetch_storage_info, given the output of `df /data | tail -1` and of
\* `df -h /data | tail -1`
fetch_storage_info(output, fallback) ==
    IF Len(output) >= 4
    THEN AdbOk(StorageInfo(ParseOrZero(output[2]) \div 1024,
                           ParseOrZero(output[3]) \div 1024,
                           ParseOrZero(output[4]) \div 1024))
    ELSE IF Len(fallback) >= 4
    THEN AdbOk(StorageInfo(parse_size_to_mb(fallback[2]), parse_size_to_mb(fallback[3]),
                           parse_size_to_mb(fallback[4])))
    ELSE [kind |-> "Err", error |-> "Failed to parse storage info"]

\* a.saturating_sub(b)
saturating_sub(a, b) == IF a > b THEN a - b ELSE 0

\* *mem_info.get(key).unwrap_or(&0): a line that is missing or whose value
\* does not parse leaves no entry
MemValue(mem_info, key) == ParseOrZero(mem_info[key])

\* fetch_memory_info, given the lines of /proc/meminfo by key
fetch_memory_info(mem_info) ==
    LET total_mb == MemValue(mem_info, "MemTotal") \div 1024
        available_mb == MemValue(mem_info, "MemAvailable") \div 1024
        used_mb == saturating_sub(total_mb, available_mb)
    IN AdbOk([total_mb |-> total_mb, available_mb |-> available_mb, used_mb |-> used_mb,
              usage_percent |-> UsagePercent(used_mb, total_mb),
              buffers_mb |-> MemValue(mem_info, "Buffers") \div 1024,
              cached_mb |-> MemValue(mem_info, "Cached") \div 1024])

\* the columns and lines the parsers are tried on
KbColumns == { <<>>, <<0>>, <<1023>>, <<1024>>, <<2047>>, <<524288>>, <<1048576>> }
DfLines ==
    { << <<>>, total, used, available, <<>>, <<>> >> :
        total \in KbColumns, used \in KbColumns, available \in KbColumns }
ShortLines == { <<>>, << <<>>, <<>>, <<>> >> }
Word == [unit |-> "word", tenths |-> 0]
DfHumanLines ==
    { <<>>,
      <<Word, [unit |-> "G", tenths |-> 15], [unit |-> "M", tenths |-> 5120],
        [unit |-> "K", tenths |-> 20480]>>,
      <<Word, [unit |-> "T", tenths |-> 10], [unit |-> "digit", tenths |-> 5120],
        Word, Word, Word>>,
      <<Word, [unit |-> "M", tenths |-> 0], [unit |-> "M", tenths |-> 70], Word>> }
MemInfos ==
    [ {"MemTotal", "MemAvailable", "Buffers", "Cached"} ->
        { <<>>, <<0>>, <<1023>>, <<524288>>, <<1048576>> } ]

FetchStorage(output, fallback) ==
    /\ probe' = [fn |-> "fetch_storage_info", input |-> <<output, fallback>>,
                 output |-> <<fetch_storage_info(output, fallback)>>]
    /\ UNCHANGED <<envVars, streamVars, deviceVars, healthVars>>

FetchMemory(mem_info) ==
    /\ probe' = [fn |-> "fetch_memory_info", input |-> <<mem_info>>,
                 output |-> <<fetch_memory_info(mem_info)>>]
    /\ UNCHANGED <<envVars, streamVars, deviceVars, healthVars>>

\* ===== system_health.rs: the battery and thermal fetchers =====

\* the most lines of `dumpsys batterystats` output that are read
MaxDrainerLines == 6

\* the most words of `dumpsys thermalservice` output that are read
MaxThermalWords == 2

\* the consumption printed on a "Uid ...: x mAh" line, in tenths of a mAh:
\* 0.1 (not above the threshold), 0.2, 3.0 and 4.5
MahValues == {1, 2, 30, 45}

\* the line at position i of the output: "Uid <i>: <mah> mAh"
DrainerLine(i, mah) == [package_name |-> i, mah |-> mah]

DrainerOutputs ==
    UNION {{[i \in 1..n |-> DrainerLine(i, values[i])] : values \in [1..n -> MahValues]} :
           n \in 0..MaxDrainerLines}

\* if mah > 0.1 { drainers.push(...) }
Drainers(lines) == SelectSeq(lines, LAMBDA line : line.mah > 1)

\* the position of drainers[i] after
\* sort_by(|a, b| b.usage_percent.partial_cmp(&a.usage_percent)), a stable sort
UsageRank(drainers, i) ==
    Cardinality({j \in 1..Len(drainers) :
                    \/ drainers[j].mah > drainers[i].mah
                    \/ drainers[j].mah = drainers[i].mah /\ j <= i})

SortByUsage(drainers) ==
    [k \in 1..Len(drainers) |->
        drainers[CHOOSE i \in 1..Len(drainers) : UsageRank(drainers, i) = k]]

\* a truncation that keeps every entry
truncate_KeepsAll(drainers, len) == drainers

\* Vec::truncate
truncate(drainers, len) == SubSeq(drainers, 1, Min(len, Len(drainers)))

\* drainers.iter().map(|d| d.usage_percent).sum()
RECURSIVE TotalMah(_)
TotalMah(drainers) ==
    IF drainers = <<>> THEN 0 ELSE drainers[1].mah + TotalMah(Tail(drainers))

\* BatteryDrainer: usage_percent is a fraction <<numerator, denominator>>
BatteryDrainer(package_name, usage_percent) ==
    [package_name |-> package_name, usage_percent |-> usage_percent]

fetch_battery_drainers(lines) ==
    LET top == truncate(SortByUsage(Drainers(lines)), 5)
        total_mah == TotalMah(top)
    IN  [k \in 1..Len(top) |->
            BatteryDrainer(top[k].package_name,
                           IF total_mah > 0
                           THEN Fraction(top[k].mah * 100, total_mah)
                           ELSE Fraction(top[k].mah, 10))]

\* the words of the thermal service's output, each a sequence of fragments
ThermalWords ==
    { <<"Thermal">>, <<"Status:">>, <<"0">>, <<"CRITICAL">>, <<"Emergency">>,
      <<"severe">>, <<"SHUTDOWN">>, <<"Moderate">>,
      <<"mHot", "Throttling", "Thresholds">>, <<"LIGHT">>, <<"ab", "normal">>,
      <<"NONE">> }

ThermalOutputs == UNION {[1..n -> ThermalWords] : n \in 0..MaxThermalWords}

\* str::to_lowercase on one fragment
to_lowercase(fragment) ==
    CASE fragment = "Thermal" -> "thermal"
      [] fragment = "Status:" -> "status:"
      [] fragment = "CRITICAL" -> "critical"
      [] fragment = "Emergency" -> "emergency"
      [] fragment = "SHUTDOWN" -> "shutdown"
      [] fragment = "Moderate" -> "moderate"
      [] fragment = "mHot" -> "mhot"
      [] fragment = "Throttling" -> "throttling"
      [] fragment = "Thresholds" -> "thresholds"
      [] fragment = "LIGHT" -> "light"
      [] fragment = "NONE" -> "none"
      [] OTHER -> fragment

\* output.to_lowercase()
OutputLower(output) ==
    [w \in 1..Len(output) |-> [f \in 1..Len(output[w]) |-> to_lowercase(output[w][f])]]

\* output_lower.contains(keyword)
OutputContains(output_lower, keyword) ==
    \E w \in 1..Len(output_lower) : Contains(output_lower[w], <<keyword>>)

ThermalInfo(status, throttling) == [status |-> status, throttling |-> throttling]

\* the keyword scan with the moderate keywords tried before the others
ThermalStatus_ModerateFirst(output_lower) ==
    IF OutputContains(output_lower, "moderate") \/ OutputContains(output_lower, "throttling")
    THEN ThermalInfo("moderate", TRUE)
    ELSE IF OutputContains(output_lower, "critical") \/ OutputContains(output_lower, "emergency")
    THEN ThermalInfo("critical", TRUE)
    ELSE IF OutputContains(output_lower, "severe") \/ OutputContains(output_lower, "shutdown")
    THEN ThermalInfo("severe", TRUE)
    ELSE IF \/ OutputContains(output_lower, "light")
            \/ OutputContains(output_lower, "normal")
            \/ OutputContains(output_lower, "none")
    THEN ThermalInfo("normal", FALSE)
    ELSE ThermalInfo("unknown", FALSE)

\* the if / else-if chain on output_lower; the temperature field, which the
\* chain does not read or write, is left out of the record
ThermalStatus(output_lower) ==
    IF OutputContains(output_lower, "critical") \/ OutputContains(output_lower, "emergency")
    THEN ThermalInfo("critical", TRUE)
    ELSE IF OutputContains(output_lower, "severe") \/ OutputContains(output_lower, "shutdown")
    THEN ThermalInfo("severe", TRUE)
    ELSE IF OutputContains(output_lower, "moderate") \/ OutputContains(output_lower, "throttling")
    THEN ThermalInfo("moderate", TRUE)
    ELSE IF \/ OutputContains(output_lower, "light")
            \/ OutputContains(output_lower, "normal")
            \/ OutputContains(output_lower, "none")
    THEN ThermalInfo("normal", FALSE)
    ELSE ThermalInfo("unknown", FALSE)

fetch_thermal_info(output) == ThermalStatus(OutputLower(output))

\* ===== specifications =====

vars == <<envVars, streamVars, deviceVars, healthVars, pureVars>>

InitStream ==
    /\ PACKAGE_CACHE = <<>>
    /\ task = [t \in Tasks |-> IdleTask]
    /\ lastStored = <<>>

InitRegistry ==
    /\ ADB_PATH = <<>>
    /\ DEVICE_CACHE = DeviceCacheNew
    /\ deviceLock = None
    /\ call = [c \in Callers |-> IdleCall]

InitCollector ==
    /\ HEALTH_CACHE = HealthCacheNew
    /\ pass = [p \in Passes |-> IdlePass]

\* no pure function has been applied
NoProbe == [fn |-> None, input |-> <<>>, output |-> <<>>]

InitProbe == probe = NoProbe

\* the streaming enumerator
Init ==
    /\ now = 0
    /\ attached \in Listings
    /\ bridge \in {"in_path", "absent"}
    /\ InitStream
    /\ InitRegistry
    /\ InitCollector
    /\ InitProbe

NextStream ==
    \/ \E t \in Tasks, force_refresh \in BOOLEAN : StartCall(t, force_refresh)
    \/ \E t \in Tasks, listing_ok \in BOOLEAN, stderr \in StderrTexts :
            ResolveSerial(t, listing_ok, stderr)
    \/ \E t \in Tasks : CheckCache(t)
    \/ \E t \in Tasks : ReplayChunk(t)
    \/ \E t \in Tasks : ReplayFinish(t)
    \/ \E t \in Tasks, spawn_ok \in BOOLEAN : LiveBegin(t, spawn_ok)
    \/ \E t \in Tasks : ReadChunk(t)
    \/ \E t \in Tasks, tail \in TailSizes : ReadEnd(t, tail)
    \/ \E t \in Tasks, success \in BOOLEAN : WaitExit(t, success)
    \/ \E t \in Tasks : StoreCache(t)
    \/ \E t \in Tasks : get_cached_packages(t)
    \/ clear_package_cache
    \/ \E d \in StreamTicks : Tick(d, MaxTime)
    \/ \E listing \in Listings : Replug(listing)

SpecStream == Init /\ [][NextStream]_vars

\* the streaming enumerator with the cache status command
NextStatus ==
    \/ NextStream
    \/ \E t \in Tasks : get_cache_status(t)

SpecStatus == Init /\ [][NextStatus]_vars

\* the package cache under concurrent commands: two start_package_stream
\* invocations and a get_cached_packages reader, with the spawned tasks of
\* the two invocations interleaving at their await points
Streamers == {"first", "second"}
Readers == {"reader"}
Interleaved == Streamers \cup Readers
InterleavedListings ==
    { <<[serial |-> "A", state |-> "device"]>>,
      <<[serial |-> "A", state |-> "offline"], [serial |-> "B", state |-> "device"]>> }

InitInterleaved ==
    /\ now = 0
    /\ attached \in InterleavedListings
    /\ bridge = "in_path"
    /\ PACKAGE_CACHE = <<>>
    /\ task = [t \in Interleaved |-> IdleTask]
    /\ lastStored = <<>>
    /\ InitRegistry
    /\ InitCollector
    /\ InitProbe

\* sizes of the partial batch left over when the listing output ends
InterleavedTails == {2}

\* each invocation is made once, with force_refresh, so each one runs a
\* live pass
NextInterleaved ==
    \/ \E t \in Streamers : task[t].pc = "idle" /\ StartCall(t, TRUE)
    \/ \E t \in Streamers : ResolveSerial(t, TRUE, "")
    \/ \E t \in Streamers : CheckCache(t)
    \/ \E t \in Streamers : LiveBegin(t, TRUE)
    \/ \E t \in Streamers : ReadChunk(t)
    \/ \E t \in Streamers, tail \in InterleavedTails : ReadEnd(t, tail)
    \/ \E t \in Streamers, success \in BOOLEAN : WaitExit(t, success)
    \/ \E t \in Streamers : StoreCache(t)
    \/ \E t \in Readers : get_cached_packages(t)
    \/ clear_package_cache
    \/ \E listing \in InterleavedListings : Replug(listing)

SpecInterleaved == InitInterleaved /\ [][NextInterleaved]_vars

\* overlapping passes: the first start_package_stream is made when no pass
\* is running, the other one while the spawned task of the first is running
NextOverlap ==
    \/ \E t \in Streamers :
            /\ task[t].pc = "idle"
            /\ RunningTasks # {} \/ \A u \in Streamers : task[u].pc = "idle"
            /\ StartCall(t, TRUE)
    \/ \E t \in Streamers : ResolveSerial(t, TRUE, "")
    \/ \E t \in Streamers : CheckCache(t)
    \/ \E t \in Streamers : LiveBegin(t, TRUE)
    \/ \E t \in Streamers : ReadChunk(t)
    \/ \E t \in Streamers, tail \in InterleavedTails : ReadEnd(t, tail)
    \/ \E t \in Streamers, success \in BOOLEAN : WaitExit(t, success)
    \/ \E t \in Streamers : StoreCache(t)
    \/ clear_package_cache
    \/ \E listing \in InterleavedListings : Replug(listing)

SpecOverlap == InitInterleaved /\ [][NextOverlap]_vars

\* one invocation at a time and every way a pass can go: the line loop may
\* be ended by a failed read as well as by the end of the output
PassStep(t) ==
    \/ \E listing_ok \in BOOLEAN : ResolveSerial(t, listing_ok, "")
    \/ CheckCache(t)
    \/ ReplayChunk(t)
    \/ ReplayFinish(t)
    \/ \E spawn_ok \in BOOLEAN : LiveBegin(t, spawn_ok)
    \/ ReadChunk(t)
    \/ \E tail \in TailSizes : ReadEnd(t, tail)
    \/ \E tail \in TailSizes : ReadFail(t, tail)
    \/ \E success \in BOOLEAN : WaitExit(t, success)
    \/ StoreCache(t)

NextPass ==
    \/ \E t \in Tasks, force_refresh \in BOOLEAN : StartCall(t, force_refresh)
    \/ \E t \in Tasks : PassStep(t)
    \/ clear_package_cache
    \/ \E listing \in Listings : Replug(listing)

SpecPass == Init /\ [][NextPass]_vars

\* the same, with the runtime scheduling every call and every spawned task
\* until it has nothing left to do, and the listing subprocess coming to an
\* end: the output ends after at most MaxChunks full batches and
\* child.wait() returns
PassFairness(t) ==
    /\ WF_vars(\E listing_ok \in BOOLEAN : ResolveSerial(t, listing_ok, ""))
    /\ WF_vars(CheckCache(t))
    /\ WF_vars(ReplayChunk(t))
    /\ WF_vars(ReplayFinish(t))
    /\ WF_vars(\E spawn_ok \in BOOLEAN : LiveBegin(t, spawn_ok))
    /\ WF_vars(\E tail \in TailSizes : ReadEnd(t, tail) \/ ReadFail(t, tail))
    /\ WF_vars(\E success \in BOOLEAN : WaitExit(t, success))
    /\ WF_vars(StoreCache(t))

SpecPassFair == SpecPass /\ \A t \in Tasks : PassFairness(t)

\* the pure functions of package_database.rs, applied to one identifier
\* at a time
Classify(package) ==
    /\ probe' = [fn |-> "get_safety_level", input |-> package,
                 output |-> <<get_safety_level(package)>>]
    /\ UNCHANGED <<envVars, streamVars, deviceVars, healthVars>>

AskSafeToRemove(package) ==
    /\ probe' = [fn |-> "is_safe_to_remove", input |-> package,
                 output |-> <<is_safe_to_remove(package)>>]
    /\ UNCHANGED <<envVars, streamVars, deviceVars, healthVars>>

InitQuiet ==
    /\ now = 0
    /\ attached = <<>>
    /\ bridge = "absent"
    /\ InitStream
    /\ InitRegistry
    /\ InitCollector
    /\ InitProbe

NextDatabase ==
    \/ \E package \in Identifiers : Classify(package)
    \/ \E package \in Identifiers : AskSafeToRemove(package)

SpecDatabase == InitQuiet /\ [][NextDatabase]_vars

\* the storage and memory parsers of system_health.rs
NextParsers ==
    \/ \E output \in DfLines : FetchStorage(output, <<>>)
    \/ \E output \in ShortLines, fallback \in DfHumanLines : FetchStorage(output, fallback)
    \/ \E mem_info \in MemInfos : FetchMemory(mem_info)

SpecParsers == InitQuiet /\ [][NextParsers]_vars

\* parse_adb_devices applied to listings of up to MaxListingLines lines
ListingLines ==
    { <<>>,
      << <<"List">>, <<"of">>, <<"devices">>, <<"attached">> >>,
      << <<"*">>, <<"daemon">>, <<"started">>, <<"successfully">> >>,
      << <<"A">> >>,
      DeviceLine([serial |-> "A", state |-> "device"], 1),
      << <<"B">>, <<"offline">> >>,
      << <<"B">>, <<"unauthorized">>, <<"transport_id", 2>> >>,
      << <<"192.168.1.5", 5555>>, <<"device">>, <<"model", "B">>, <<"usb", 1>>,
         <<"model", "A">>, <<"device">> >> }

MaxListingLines == 3

Listing(n) == [1..n -> ListingLines]

\* one listing is parsed in a behaviour
ParseListing(output) ==
    /\ probe = NoProbe
    /\ probe' = [fn |-> "parse_adb_devices", input |-> output,
                 output |-> parse_adb_devices(output)]
    /\ UNCHANGED <<envVars, streamVars, deviceVars, healthVars>>

NextListing == \E n \in 0..MaxListingLines : \E output \in Listing(n) : ParseListing(output)

SpecListing == InitQuiet /\ [][NextListing]_vars

\* the battery and thermal fetchers applied to bounded outputs
FetchBatteryDrainers(lines) ==
    /\ probe = NoProbe
    /\ probe' = [fn |-> "fetch_battery_drainers", input |-> <<lines>>,
                 output |-> <<fetch_battery_drainers(lines)>>]
    /\ UNCHANGED <<envVars, streamVars, deviceVars, healthVars>>

FetchThermalInfo(output) ==
    /\ probe = NoProbe
    /\ probe' = [fn |-> "fetch_thermal_info", input |-> <<output>>,
                 output |-> <<fetch_thermal_info(output)>>]
    /\ UNCHANGED <<envVars, streamVars, deviceVars, healthVars>>

NextFetchers ==
    \/ \E lines \in DrainerOutputs : FetchBatteryDrainers(lines)
    \/ \E output \in ThermalOutputs : FetchThermalInfo(output)

SpecFetchers == InitQuiet /\ [][NextFetchers]_vars

\* the device registry
InitDevices ==
    /\ now = 0
    /\ attached \in DeviceListings
    /\ bridge \in BridgeStates
    /\ InitStream
    /\ InitRegistry
    /\ InitCollector
    /\ InitProbe

NextDevices ==
    \/ \E c \in Callers, force_refresh \in BOOLEAN :
            CallRegistry(c, "get_devices", force_refresh)
    \/ \E c \in Callers : CallRegistry(c, "get_default_device", FALSE)
    \/ \E c \in Callers : GetDevicesEnter(c)
    \/ \E c \in Callers : GetDevicesOk(c)
    \/ \E c \in Callers, stderr \in StderrTexts : GetDevicesFail(c, stderr)
    \/ clear_device_cache
    \/ \E d \in DeviceTicks : Tick(d, MaxDeviceTime)
    \/ \E listing \in DeviceListings : Replug(listing)

SpecDevices == InitDevices /\ [][NextDevices]_vars

\* two threads in get_devices(false) at once: the first call is made when
\* no call is in progress, the other one while `devices -l` of the first is
\* running, so that it blocks in DEVICE_CACHE.lock() and is woken when the
\* first returns; the clock advances while the subprocess runs
Contenders == {"first", "second"}

InitContend ==
    /\ now = 0
    /\ attached \in DeviceListings
    /\ bridge \in BridgeStates
    /\ InitStream
    /\ ADB_PATH = <<>>
    /\ DEVICE_CACHE = DeviceCacheNew
    /\ deviceLock = None
    /\ call = [c \in Contenders |-> IdleCall]
    /\ InitCollector
    /\ InitProbe

NextContend ==
    \/ \E c \in Contenders :
            /\ call[c].pc = "idle"
            /\ \/ \A d \in Contenders : call[d].pc = "idle"
               \/ \E d \in Contenders : call[d].pc = "running"
            /\ CallRegistry(c, "get_devices", FALSE)
    \/ \E c \in Contenders : GetDevicesEnter(c)
    \/ \E c \in Contenders : GetDevicesOk(c)
    \/ \E c \in Contenders, stderr \in StderrTexts : GetDevicesFail(c, stderr)
    \/ \E d \in DeviceTicks : deviceLock # None /\ Tick(d, MaxDeviceTime)
    \/ \E listing \in DeviceListings : Replug(listing)

SpecContend == InitContend /\ [][NextContend]_vars

\* the health collector; a stream of packages may have filled PACKAGE_CACHE
\* before
StoredBefore(serial) ==
    CachedPackages(SortByName(ReadLines(serial, <<>>, <<>>, 0, 2)[1]), 0, serial)

\* what is attached changes from one listing to a later one
Swap(i, j) ==
    /\ i < j
    /\ attached = HealthListings[i]
    /\ Replug(HealthListings[j])

InitHealth ==
    /\ now = 0
    /\ attached \in {HealthListings[i] : i \in 1..Len(HealthListings)}
    /\ bridge = "in_path"
    /\ PACKAGE_CACHE \in {<<>>, <<StoredBefore("A")>>}
    /\ lastStored = PACKAGE_CACHE
    /\ task = [t \in Tasks |-> IdleTask]
    /\ InitRegistry
    /\ InitCollector
    /\ InitProbe

NextHealth ==
    \/ \E p \in Passes : BeginPass(p)
    \/ \E p \in Passes : SerialDone(p)
    \/ \E p \in Passes : FetchDone(p)
    \/ \E i, j \in 1..Len(HealthListings) : Swap(i, j)

SpecHealth == InitHealth /\ [][NextHealth]_vars

\* the bridge executor, run with every stderr over Phrases
InitExecutor ==
    /\ now = 0
    /\ attached = <<>>
    /\ bridge \in BridgeStates
    /\ InitStream
    /\ InitRegistry
    /\ InitCollector
    /\ InitProbe

NextExecutor ==
    \/ \E c \in Callers : ExecuteBegin(c)
    \/ \E c \in Callers : ExecuteIoError(c)
    \/ \E c \in Callers : ExecuteOk(c)
    \/ \E c \in Callers, stderr \in SUBSET Phrases : ExecuteFail(c, stderr)

SpecExecutor == InitExecutor /\ [][NextExecutor]_vars

\* one caller's collection passes, one after the other, while the device
\* comes and goes and the slots age
CollectListings == { <<>>, <<[serial |-> "A", state |-> "device"]>> }
CollectTicks == {4}
MaxCollectTime == 4

InitCollect ==
    /\ now = 0
    /\ attached \in CollectListings
    /\ bridge = "in_path"
    /\ InitStream
    /\ InitRegistry
    /\ InitCollector
    /\ InitProbe

NextCollect ==
    \/ BeginPass("on_demand")
    \/ SerialDone("on_demand")
    \/ FetchDone("on_demand")
    \/ clear_health_cache
    \/ \E d \in CollectTicks : Tick(d, MaxCollectTime)
    \/ \E listing \in CollectListings : Replug(listing)

SpecCollect == InitCollect /\ [][NextCollect]_vars

\* the monitor loop alone, polling while devices come and go
InitMonitor ==
    /\ now = 0
    /\ attached \in MonitorListings
    /\ bridge \in {"in_path", "absent"}
    /\ InitStream
    /\ InitRegistry
    /\ InitCollector
    /\ InitProbe

NextMonitor ==
    \/ MonitorPoll
    \/ SerialDone("monitor")
    \/ FetchDone("monitor")
    \/ \E d \in CollectTicks : Tick(d, MaxCollectTime)
    \/ \E listing \in MonitorListings : Replug(listing)

SpecMonitor == InitMonitor /\ [][NextMonitor]_vars

\* ===== properties of the streaming enumerator =====

IsStream(t) == task[t].command = "start_package_stream"

\* the package_chunk events a pass has emitted so far, in emission order
Chunks(t) == SelectSeq(task[t].emitted, LAMBDA e : e.event = "package_chunk")

Completions(t) == SelectSeq(task[t].emitted, LAMBDA e : e.event = "package_stream_complete")

\* the records of the first k batches, in emission order
RECURSIVE Delivered(_, _)
Delivered(chunks, k) ==
    IF k = 0 THEN <<>> ELSE Delivered(chunks, k - 1) \o chunks[k].packages

AllDelivered(t) == Delivered(Chunks(t), Len(Chunks(t)))

LastEvent(t) == task[t].emitted[Len(task[t].emitted)]

\* the pass returned, replayed the cache and reported it with from_cache
ReplayedFromCache(t) ==
    /\ task[t].result = "Ok"
    /\ Len(Completions(t)) = 1
    /\ Completions(t)[1].from_cache
    /\ Completions(t)[1].total_packages = Len(task[t].replayable[1])
    /\ AllDelivered(t) = task[t].replayable[1]

\* C1 as claimed: a startStream call with forceRefresh=false that follows a
\* successful pass for the same device by less than 300 s runs no bridge
\* subprocess at all (no version probe, no device listing, no package
\* listing) and replays the cached list with from_cache=true.
C1_NoSubprocessAtAll ==
    \A t \in Tasks :
        (IsStream(t) /\ task[t].pc = "done" /\ task[t].replayable # <<>>)
        => /\ task[t].spawned = [version |-> 0, devices |-> 0, list |-> 0]
           /\ ReplayedFromCache(t)

\* C1 amended: such a call runs no package-listing subprocess and replays
\* the list the earlier pass stored, with a completion event tagged
\* from_cache=true; resolving the serial costs it one version probe and one
\* `devices -l` listing.
C1_NoListingSubprocess ==
    \A t \in Tasks :
        (IsStream(t) /\ task[t].replayable # <<>>)
        => /\ task[t].pc \in {"replay", "done"}
           /\ task[t].spawned = [version |-> 1, devices |-> 1, list |-> 0]
           /\ task[t].pc = "done" => ReplayedFromCache(t)

C1_Witness ==
    \E t \in Tasks :
        /\ IsStream(t) /\ task[t].pc = "done" /\ task[t].replayable # <<>>
        /\ Len(task[t].replayable[1]) > CHUNK_SIZE
        /\ task[t].entry_age > 0

\* C4: the batches of a successful live pass hold, taken together, exactly
\* the records (with multiplicity) of the list the pass stores in the cache.
C4_BatchesEqualCachedList ==
    \A t \in Tasks :
        task[t].wrote # <<>> => SameBag(AllDelivered(t), task[t].wrote[1].packages)

C4_Witness ==
    \E t \in Tasks :
        /\ task[t].wrote # <<>>
        /\ Len(Chunks(t)) = 2
        /\ AllDelivered(t) # task[t].wrote[1].packages
        /\ PACKAGE_CACHE = task[t].wrote

\* the pass ended successfully
EndedOk(t) ==
    /\ IsStream(t)
    /\ task[t].result = "Ok"
    /\ \/ task[t].live /\ task[t].exit_ok /\ task[t].pc \in {"store", "done"}
       \/ ~task[t].live /\ task[t].pc = "done" /\ task[t].entry # <<>>

\* C5: a pass that delivers at least one package and ends successfully has
\* exactly one batch with is_final=true, and it is the last batch emitted.
C5_OneFinalBatchLast ==
    \A t \in Tasks :
        (EndedOk(t) /\ (Len(task[t].packages) > 0))
        => LET chunks == Chunks(t) IN
           /\ Cardinality({k \in 1..Len(chunks) : chunks[k].is_final}) = 1
           /\ chunks[Len(chunks)].is_final

\* C6: the batches of a pass carry chunk_index 0, 1, 2, ... in emission
\* order; each holds at most 30 records, exactly 30 unless marked final, and
\* its total_so_far is the number of records emitted up to and including it.
C6_BatchSequence ==
    \A t \in Tasks :
        LET chunks == Chunks(t) IN
        \A k \in 1..Len(chunks) :
            /\ chunks[k].chunk_index = k - 1
            /\ Len(chunks[k].packages) <= CHUNK_SIZE
            /\ ~chunks[k].is_final => Len(chunks[k].packages) = CHUNK_SIZE
            /\ chunks[k].total_so_far = Len(Delivered(chunks, k))

C6_Witness ==
    \E t \in Tasks :
        /\ task[t].pc = "done" /\ ~task[t].live
        /\ Len(Chunks(t)) = 2
        /\ Len(Chunks(t)[2].packages) < CHUNK_SIZE

\* the listing subprocess of a live pass exited non-zero after batches
\* had been emitted
FailedAfterBatches(t) ==
    /\ task[t].live /\ ~task[t].exit_ok /\ task[t].pc = "done"
    /\ Chunks(t) # <<>>

\* C7: when the listing subprocess exits non-zero after batches were
\* emitted, the pass ends with a progress event carrying an error and
\* is_complete=true, emits no completion event, and no step of the pass has
\* changed the package cache.
C7_FailedPassEnd ==
    \A t \in Tasks :
        FailedAfterBatches(t)
        => /\ LastEvent(t).event = "package_stream_progress"
           /\ LastEvent(t).error # None
           /\ LastEvent(t).is_complete
           /\ Completions(t) = <<>>
           /\ task[t].wrote = <<>>

C7_PassLeavesCache ==
    \A t \in Tasks :
        (task[t].pc \in {"live", "reading", "wait"} /\ task'[t] # task[t])
        => PACKAGE_CACHE' = PACKAGE_CACHE

C7_FailedPassLeavesCache == [](C7_FailedPassEnd) /\ [][C7_PassLeavesCache]_vars

C7_Witness ==
    \E t \in Tasks :
        /\ FailedAfterBatches(t)
        /\ PACKAGE_CACHE # <<>>
        /\ PACKAGE_CACHE[1].device_serial = task[t].device_serial

\* C9: the package cache payload is served (by a replay or by
\* get_cached_packages) only when the entry belongs to the device that is
\* the default device at that moment and is younger than 300 s.
C9_ServedOnlyWhenOwnedAndFresh ==
    \A t \in Tasks :
        (task[t].entry # <<>> /\ task[t].result = "Ok")
        => /\ task[t].entry[1].device_serial = task[t].current
           /\ task[t].entry_age < CACHE_DURATION_SECS



\* ===== properties of the device registry =====

\* the caller's two latest calls are both get_devices(false), they entered
\* within one TTL of each other with no clear_device_cache since the first was
\* made, and the later one has returned
TwoCallsInWindow(c) ==
    /\ call[c].command = "get_devices" /\ ~call[c].force_refresh
    /\ call[c].pc = "done" /\ ~call[c].cleared
    /\ call[c].prev.valid
    /\ call[c].at - call[c].prev.at <= DEVICE_CACHE_DURATION

\* C2: two get_devices(false) calls made within one 5-second TTL window spawn
\* at most one `devices -l` subprocess in total, whatever the first returned
C2_AtMostOneSpawn ==
    \A c \in Callers :
        TwoCallsInWindow(c) => call[c].prev.spawned + call[c].spawned <= 1

\* C2, restricted: when the first of the two calls returned a device list, the
\* two calls spawn at most one `devices -l` subprocess in total
C2_AtMostOneSpawnAfterSuccess ==
    \A c \in Callers :
        TwoCallsInWindow(c) /\ ~call[c].prev.failed
            => call[c].prev.spawned + call[c].spawned <= 1

\* the first call found the cache expired and listed the devices; the second,
\* made a full TTL later, was answered from the cache
C2_Witness ==
    \E c \in Callers :
        /\ TwoCallsInWindow(c) /\ ~call[c].prev.failed
        /\ call[c].prev.spawned = 1 /\ call[c].spawned = 0
        /\ call[c].at - call[c].prev.at = DEVICE_CACHE_DURATION
        /\ call[c].result.kind = "Ok" /\ call[c].result.value # <<>>

AllReady(devices) == \A i \in 1..Len(devices) : devices[i].state = "device"

\* C3: every device that get_devices returns, and every device held in
\* DEVICE_CACHE, has state "device"
C3_OnlyReadyDevices ==
    /\ AllReady(DEVICE_CACHE.devices)
    /\ \A c \in Callers :
        call[c].command = "get_devices" /\ call[c].result.kind = "Ok"
            => AllReady(call[c].result.value)

\* a listing with a device that is not ready was parsed, filtered, cached and
\* returned
C3_Witness ==
    \E c \in Callers :
        /\ call[c].command = "get_devices" /\ call[c].pc = "done"
        /\ call[c].spawned = 1
        /\ call[c].result.kind = "Ok"
        /\ Len(call[c].result.value) = 1
        /\ DEVICE_CACHE.devices = call[c].result.value
        /\ Len(attached) = 2
        /\ \E i \in 1..Len(attached) : attached[i].state = "offline"


\* ===== properties of the health collector =====

MetricNames == {Metrics[i] : i \in 1..Len(Metrics)}

\* a step in which HEALTH_CACHE changes owner
DeviceChanged == HEALTH_CACHE'.device_id # HEALTH_CACHE.device_id

\* all seven slots are as HealthCache::new makes them
SevenSlotsReset == \A m \in MetricNames : HEALTH_CACHE[m] = CachedMetricNew(TTL[m])

\* the pass that took the step has read nothing yet: it waits for its first
\* metric, its snapshot holding defaults only
ReadNothingYet(p) ==
    /\ pass[p].pc = "fetch" /\ pass[p].metric = 1
    /\ \A m \in MetricNames : pass[p].health[HealthField[m]] = DefaultMetric

\* C8: when a pass finds the device's serial changed, the package cache and
\* all seven health slots are invalidated in that one step, before the pass
\* reads any of them: none of them still holds the old device's data
C8_AllCachesInvalidatedTogether ==
    [][DeviceChanged =>
        /\ SevenSlotsReset'
        /\ \/ PACKAGE_CACHE' = <<>>
           \/ PACKAGE_CACHE'[1].device_serial = HEALTH_CACHE'.device_id
        /\ \A p \in Passes : pass'[p] # pass[p] => ReadNothingYet(p)']_vars

\* C8, restricted: when a pass finds the device's serial changed, all seven
\* health slots are reset in that one step, before the pass reads any of
\* them; PACKAGE_CACHE is left as it was
C8_HealthSlotsInvalidatedTogether ==
    [][DeviceChanged =>
        /\ SevenSlotsReset'
        /\ PACKAGE_CACHE' = PACKAGE_CACHE
        /\ \A p \in Passes : pass'[p] # pass[p] => ReadNothingYet(p)']_vars

\* one pass returned a snapshot of device A, whose packages are cached too;
\* the other then found device B and reset the slots
C8_Witness ==
    \E p, q \in Passes :
        /\ pass[q].pc = "done" /\ pass[q].device_id = "A"
        /\ pass[q].returned # <<>> /\ pass[q].returned[1].battery_drainers = MetricFrom("A")
        /\ pass[p].device_id = "B" /\ ReadNothingYet(p)
        /\ HEALTH_CACHE.device_id = "B" /\ SevenSlotsReset
        /\ PACKAGE_CACHE # <<>> /\ PACKAGE_CACHE[1].device_serial = "A"

\* the snapshots a pass has emitted or returned
Snapshots(p) ==
    {pass[p].emitted[i].health : i \in 1..Len(pass[p].emitted)} \cup
    {pass[p].returned[i] : i \in 1..Len(pass[p].returned)}

\* C10: in every snapshot emitted or returned, each metric is the default or
\* was read from the device whose serial is the snapshot's device_id
C10_SnapshotOfOneDevice ==
    \A p \in Passes : \A health \in Snapshots(p) : \A m \in MetricNames :
        health[HealthField[m]].origin \in {None, health.device_id}


\* the elements of a sequence
Range(seq) == {seq[i] : i \in 1..Len(seq)}

\* a pass that has returned: its snapshot went out with the complete event,
\* whose metrics_updated names the metrics fetched with success, each once
ReturnedWithNames(p) ==
    /\ pass[p].returned # <<>>
    /\ pass[p].emitted # <<>>
    /\ LET final == pass[p].emitted[Len(pass[p].emitted)] IN
        /\ final.is_complete
        /\ final.health = pass[p].returned[1]
        /\ Range(final.metrics_updated) = pass[p].succeeded
        /\ Len(final.metrics_updated) = Cardinality(pass[p].succeeded)
        /\ pass[p].succeeded \cap pass[p].failed = {}

\* the step in which the fetch of the pass's current metric fails
FetchFails(p) ==
    /\ pass[p].pc = "fetch"
    /\ Metrics[pass[p].metric] \in pass'[p].failed \ pass[p].failed

\* the failed metric's slot is as it was and its value is in the snapshot
SlotKept(p) ==
    LET m == Metrics[pass[p].metric] IN
    /\ HEALTH_CACHE'[m] = HEALTH_CACHE[m]
    /\ pass'[p].health[HealthField[m]] = HEALTH_CACHE[m].data
    /\ pass'[p].updated_metrics = pass[p].updated_metrics

\* C11: whichever metric fetches fail, the pass returns a snapshot; a failed
\* metric's slot keeps value and timestamp and its previous value is copied
\* to the snapshot; the complete event names exactly the metrics fetched
\* with success in this pass
C11_FailuresIsolated ==
    /\ [](\A p \in Passes : pass[p].pc = "done" => ReturnedWithNames(p))
    /\ [][\A p \in Passes : FetchFails(p) => SlotKept(p)]_vars

\* a pass returned although the memory fetch failed: the snapshot holds the
\* value an earlier pass had cached, and other metrics were fetched anew
C11_Witness ==
    LET p == pass["on_demand"] IN
    /\ p.pc = "done" /\ p.returned # <<>>
    /\ p.failed = {"memory"}
    /\ p.succeeded = {"storage", "cpu"}
    /\ p.returned[1].memory = MetricFrom("A")
    /\ HEALTH_CACHE.memory.updated_at < now

\* the number of metrics the pass has resolved: those before the one it is
\* fetching, all seven once it is done
Resolved(p) ==
    IF pass[p].pc = "done" THEN Len(Metrics)
    ELSE IF pass[p].pc = "fetch" THEN pass[p].metric - 1
    ELSE 0

\* C22: a system_health_update event follows each of the seven metrics, so
\* a pass waiting for a fetch, or done, has emitted one event for every
\* metric it has resolved, the k-th one carrying the first k fields
C22_EventAfterEachMetric ==
    \A p \in Passes :
        pass[p].pc \in {"fetch", "done"} => Len(pass[p].emitted) = Resolved(p)

IsPrefix(s1, s2) == Len(s1) <= Len(s2) /\ SubSeq(s2, 1, Len(s1)) = s1

\* C23: a pass that returned a snapshot has emitted exactly one complete
\* event, its last one, carrying the returned snapshot; every earlier event
\* is incomplete and names a prefix of the final list of updated metrics;
\* a pass that has not returned has emitted no complete event
C23_OneCompleteEventLast ==
    \A p \in Passes :
        LET events == pass[p].emitted
            n == Len(events)
        IN /\ pass[p].returned # <<>> =>
                /\ n > 0
                /\ events[n].is_complete
                /\ events[n].health = pass[p].returned[1]
                /\ \A i \in 1..(n - 1) :
                    /\ ~events[i].is_complete
                    /\ IsPrefix(events[i].metrics_updated, events[n].metrics_updated)
           /\ pass[p].returned = <<>> => \A i \in 1..n : ~events[i].is_complete

\* a pass returned after four events whose lists of updated metrics grew
\* from none to three names
C23_Witness ==
    LET events == pass["on_demand"].emitted IN
    /\ pass["on_demand"].returned # <<>>
    /\ Len(events) = 4
    /\ events[1].metrics_updated = <<>>
    /\ events[2].metrics_updated = <<"memory">>
    /\ Len(events[4].metrics_updated) = 3
    /\ events[4].health = pass["on_demand"].returned[1]

\* the metrics whose fetch command the pass has issued and seen return
Fetched(p) == pass[p].succeeded \cup pass[p].failed

\* the pass leaves the metrics numbered from..to behind in this step
Passed(p, k) ==
    /\ pass[p].pc \in {"serial", "fetch"}
    /\ pass'[p] # pass[p]
    /\ (pass[p].pc = "serial" \/ pass[p].metric <= k)
    /\ (pass'[p].pc = "done" \/ k < pass'[p].metric)

\* the fetch of metric m returns to pass p in this step
FetchReturns(p, m) ==
    /\ pass[p].pc = "fetch" /\ pass'[p] # pass[p]
    /\ m = Metrics[pass[p].metric]

\* C24: a metric is fetched exactly when its own slot is older than its own
\* TTL when tested; a successful fetch gives that slot the new value and
\* the current time and changes no other slot; the snapshot field is the
\* slot's value
C24_FetchedIffStale ==
    /\ [](\A p \in Passes : \A k \in 1..Len(pass[p].ages) :
            /\ (pass[p].pc = "fetch" /\ pass[p].metric = k) => pass[p].ages[k] > TTL[Metrics[k]]
            /\ (pass[p].pc = "done" \/ pass[p].metric > k) =>
                    (Metrics[k] \in Fetched(p) <=> pass[p].ages[k] > TTL[Metrics[k]]))
    /\ [][\A p \in Passes :
            /\ \A m \in MetricNames : FetchReturns(p, m) =>
                /\ \A other \in MetricNames \ {m} : HEALTH_CACHE'[other] = HEALTH_CACHE[other]
                /\ HEALTH_CACHE'.device_id = HEALTH_CACHE.device_id
                /\ m \in pass'[p].succeeded =>
                    HEALTH_CACHE'[m] = [data |-> MetricFrom(attached[1].serial),
                                        updated_at |-> now, ttl |-> TTL[m]]
            /\ \A k \in 1..Len(Metrics) : Passed(p, k) =>
                pass'[p].health[HealthField[Metrics[k]]] = HEALTH_CACHE'[Metrics[k]].data]_vars

\* a pass found the storage, memory and CPU slots four seconds old and
\* fetched them, and took the other four, younger than their TTLs, from
\* the cache
C24_Witness ==
    LET p == pass["on_demand"] IN
    /\ p.pc = "done"
    /\ p.ages = <<4, 4, 4, 4, 4, 4, 4>>
    /\ p.succeeded = {"storage", "memory", "cpu"}
    /\ p.failed = {}
    /\ p.returned[1].thermal = HEALTH_CACHE.thermal.data
    /\ HEALTH_CACHE.thermal.updated_at < now
    /\ HEALTH_CACHE.storage.updated_at = now


\* ===== properties of the bridge executor =====

\* an execute_adb_command that returned after the command exited non-zero
ExitedNonZero(c) ==
    /\ call[c].command = "execute_adb_command" /\ call[c].pc = "done"
    /\ call[c].stderr # <<>>

ErrorType(c) == call[c].result.error.type

\* C12: a stderr containing "device unauthorized", whatever else it
\* contains, is classified as DeviceUnauthorized
C12_AlwaysUnauthorized ==
    \A c \in Callers :
        ExitedNonZero(c) /\ "device unauthorized" \in call[c].stderr[1]
            => ErrorType(c) = "DeviceUnauthorized"

\* the phrases tested before "device unauthorized"
NoDevicePhrases == {"no devices/emulators found", "device not found"}

\* C12, restricted: a stderr containing "device unauthorized" is never
\* CommandFailed; it is DeviceUnauthorized unless it also contains a phrase
\* tested earlier, which then decides
C12_UnauthorizedUnlessEarlier ==
    \A c \in Callers :
        ExitedNonZero(c) /\ "device unauthorized" \in call[c].stderr[1]
            => LET error_msg == call[c].stderr[1] IN
               /\ call[c].result.kind = "Err"
               /\ ErrorType(c) =
                    IF error_msg \cap NoDevicePhrases # {} THEN "NoDeviceConnected"
                    ELSE IF "device offline" \in error_msg THEN "DeviceOffline"
                    ELSE "DeviceUnauthorized"

\* an unauthorized device reported next to phrases tested later
C12_Witness ==
    \E c \in Callers :
        /\ ExitedNonZero(c)
        /\ call[c].stderr[1] = {"device unauthorized", "permission denied", "error: closed"}
        /\ ErrorType(c) = "DeviceUnauthorized"


\* the patterns in the order of their priority, each with its error
PatternOrder ==
    << <<NoDevicePhrases, "NoDeviceConnected">>,
       <<{"device offline"}, "DeviceOffline">>,
       <<{"device unauthorized"}, "DeviceUnauthorized">>,
       <<{"cannot connect to daemon", "daemon not running"}, "AdbServerNotRunning">>,
       <<{"permission denied", "access denied"}, "PermissionDenied">> >>

\* the index of the earliest pattern found in the stderr, 0 when there is none
FirstMatch(error_msg) ==
    LET hits == {i \in 1..Len(PatternOrder) : PatternOrder[i][1] \cap error_msg # {}}
    IN IF hits = {} THEN 0 ELSE CHOOSE i \in hits : \A j \in hits : i <= j

CallStep == \E c \in Callers : call'[c].pc # call[c].pc

\* C15: with no bridge executable to be found, every call fails with
\* AdbNotFound and spawns nothing, and no call changes DEVICE_CACHE
C15_FailsFastWithoutBridge ==
    /\ [](bridge = "absent" =>
            \A c \in Callers : call[c].pc = "done" =>
                /\ call[c].result = AdbErr("AdbNotFound", {})
                /\ call[c].spawned = 0)
    /\ [][bridge = "absent" /\ CallStep => DEVICE_CACHE' = DEVICE_CACHE]_vars

\* get_default_device failed for want of a bridge, as the call before it had
C15_Witness ==
    \E c \in Callers :
        /\ bridge = "absent" /\ ADB_PATH = <<None>>
        /\ call[c].command = "get_default_device" /\ call[c].pc = "done"
        /\ call[c].result = AdbErr("AdbNotFound", {})
        /\ call[c].prev.valid /\ call[c].prev.failed
        /\ DEVICE_CACHE.devices = <<>>

\* C17: get_default_device returns the serial of the first entry of the
\* list get_devices(false) yields, a ready device, and NoDeviceConnected
\* when that list is empty
C17_FirstReadyDevice ==
    \A c \in Callers :
        call[c].command = "get_default_device" /\ call[c].pc = "done"
        /\ call[c].listed # <<>>
            => LET devices == call[c].listed[1] IN
               /\ ~call[c].force_refresh
               /\ AllReady(devices)
               /\ devices = <<>> <=> call[c].result = AdbErr("NoDeviceConnected", {})
               /\ devices # <<>> => call[c].result = AdbOk(devices[1].serial)

\* two ready devices are listed, B before A, and B is the default
C17_Witness ==
    \E c \in Callers :
        /\ call[c].command = "get_default_device" /\ call[c].pc = "done"
        /\ call[c].listed # <<>> /\ Len(call[c].listed[1]) = 2
        /\ call[c].listed[1][2].serial = "A"
        /\ call[c].result = AdbOk("B")

\* the step in which a get_devices call takes the lock and tests the cache
Enters(c) ==
    /\ call[c].command = "get_devices"
    /\ call[c].pc = "enter" /\ call'[c].pc # "enter"

\* the cached list is no older than the TTL
FreshCache == Elapsed(DEVICE_CACHE.last_update) <= DEVICE_CACHE_DURATION

\* answered from the cache: nothing spawned, the cached list returned, the
\* cache as it was
ServedFromCache(c) ==
    /\ call'[c].pc = "done" /\ call'[c].spawned = 0
    /\ call'[c].result = AdbOk(DEVICE_CACHE.devices)
    /\ DEVICE_CACHE' = DEVICE_CACHE

Spawns(c) == call'[c].pc = "running" /\ call'[c].spawned = 1

\* C18: get_devices(false) on a cache no older than the TTL spawns nothing,
\* returns the cached list and leaves list and timestamp alone;
\* get_devices(true) always spawns the listing
C18_FreshServedForcedSpawns ==
    [][\A c \in Callers :
        /\ Enters(c) /\ ~call[c].force_refresh /\ FreshCache => ServedFromCache(c)
        /\ Enters(c) /\ call[c].force_refresh => Spawns(c)]_vars

\* C18, restricted: get_devices(true) spawns the listing whenever a bridge
\* executable was found
C18_FreshServedForcedSpawnsWithBridge ==
    [][\A c \in Callers :
        /\ Enters(c) /\ ~call[c].force_refresh /\ FreshCache => ServedFromCache(c)
        /\ Enters(c) /\ call[c].force_refresh /\ bridge # "absent" => Spawns(c)
        /\ Enters(c) /\ call[c].force_refresh /\ bridge = "absent"
            => call'[c].result = AdbErr("AdbNotFound", {}) /\ call'[c].spawned = 0]_vars

\* a list of two devices fetched a full TTL ago was served from the cache
C18_Witness ==
    \E c \in Callers :
        /\ call[c].command = "get_devices" /\ ~call[c].force_refresh
        /\ call[c].pc = "done" /\ call[c].spawned = 0
        /\ call[c].at = now
        /\ Elapsed(DEVICE_CACHE.last_update) = DEVICE_CACHE_DURATION
        /\ Len(DEVICE_CACHE.devices) = 2
        /\ call[c].result = AdbOk(DEVICE_CACHE.devices)

\* C19: no cache lock is held while a bridge subprocess is running; here for
\* the device cache: a call whose `devices -l` is running holds no lock
C19_NoLockAcrossSubprocess ==
    \A c \in Callers : call[c].pc = "running" => deviceLock = None

\* ===== properties of the package cache under interleaving =====

SortedByName(packages) ==
    \A i \in 1..Len(packages) - 1 :
        packages[i].package_name <= packages[i + 1].package_name

\* a pass that has spawned its listing and not yet stored or failed
InProgress(t) == task[t].pc \in {"reading", "wait", "store"}

\* the step puts into the cache the whole list of one successful pass,
\* sorted, under that pass's serial
StoresFinishedPass(t) ==
    /\ task[t].pc = "store" /\ task'[t].pc = "done" /\ task[t].exit_ok
    /\ SameBag(AllDelivered(t), PACKAGE_CACHE'[1].packages)
    /\ SortedByName(PACKAGE_CACHE'[1].packages)
    /\ PACKAGE_CACHE'[1].device_serial = task[t].device_serial
    /\ PACKAGE_CACHE' = task'[t].wrote

\* the reader's step returns the list of the stored entry
ReadsStored(r) ==
    (task'[r] # task[r] /\ task'[r].command = "get_cached_packages")
    => IF PACKAGE_CACHE = <<>> THEN task'[r].result # "Ok"
       ELSE /\ task'[r].result = "Ok"
            /\ task'[r].packages = lastStored[1].packages

\* C20: the package cache is empty or holds the complete, sorted list of
\* one finished successful pass with that pass's serial, and a reader gets
\* that list, never the list a running pass is accumulating
C20_CacheHoldsOneFinishedPass ==
    /\ [](PACKAGE_CACHE # <<>> =>
            /\ PACKAGE_CACHE = lastStored
            /\ SortedByName(PACKAGE_CACHE[1].packages))
    /\ [][/\ PACKAGE_CACHE' # PACKAGE_CACHE =>
                \/ PACKAGE_CACHE' = <<>>
                \/ \E t \in Streamers : StoresFinishedPass(t)
          /\ \A r \in Readers : ReadsStored(r)]_vars

\* the reader was served the list stored by one pass while the other pass
\* had read a batch of another device's list
C20_Witness ==
    \E t, u \in Streamers, r \in Readers :
        /\ task[t].pc = "done" /\ task[t].wrote = PACKAGE_CACHE
        /\ PACKAGE_CACHE # <<>>
        /\ InProgress(u) /\ Len(task[u].packages) >= CHUNK_SIZE
        /\ task[u].device_serial # PACKAGE_CACHE[1].device_serial
        /\ task[r].result = "Ok"
        /\ task[r].packages = PACKAGE_CACHE[1].packages
        /\ Len(task[r].packages) > 0
        /\ task[r].packages # task[u].packages

\* ===== properties of a live pass =====

\* the pass has emitted package_stream_complete with from_cache = false
CompletedLive(t) ==
    /\ IsStream(t)
    /\ Completions(t) # <<>>
    /\ ~Completions(t)[1].from_cache

\* C21: once a live pass has emitted its completion event, the pass has
\* stored its sorted list in the package cache under its device's serial
C21_StoredBeforeCompletion ==
    \A t \in Tasks :
        CompletedLive(t) =>
            /\ task[t].wrote # <<>>
            /\ task[t].wrote[1].packages = task[t].packages
            /\ task[t].wrote[1].device_serial = task[t].device_serial

\* ===== properties of the package database =====

Classified == probe.fn = "get_safety_level"

\* the rules with the words as the claim gives them
HasWord(package, words) == \E i \in 1..Len(package) : package[i] \in words
SocialWords == {"facebook", "instagram", "tiktok"}
CriticalWords == {"gms", "vending", "systemui"}
VendorWords == {"samsung", "xiaomi", "miui", "huawei", "oppo", "vivo"}

\* a table key has the level the table records
KeysByTable ==
    /\ probe.input \in DbKeys => probe.output[1] = DbLevel(probe.input)
    /\ probe.input = <<"com", ".", "google", ".", "android", ".", "gms">>
        => probe.output[1] = "Expert"
    /\ probe.input = <<"com", ".", "android", ".", "systemui">>
        => probe.output[1] = "Dangerous"
    /\ probe.input = <<"com", ".", "facebook", ".", "katana">>
        => probe.output[1] = "Caution"
    /\ probe.input = <<"com", ".", "google", ".", "android", ".", "apps", ".", "maps">>
        => probe.output[1] = "Safe"

\* C25 as claimed: a table key has its table level; any other identifier
\* is decided by the first rule one of whose words (facebook, instagram,
\* tiktok; gms, vending, systemui; samsung, xiaomi, miui, huawei, oppo,
\* vivo) occurs in it, and is Safe when none does
C25_LevelByTableThenWords ==
    Classified =>
        /\ KeysByTable
        /\ probe.input \notin DbKeys =>
            LET social == HasWord(probe.input, SocialWords)
                critical == HasWord(probe.input, CriticalWords)
                vendor == HasWord(probe.input, VendorWords)
            IN /\ social => probe.output[1] = "Caution"
               /\ (~social /\ critical) => probe.output[1] = "Dangerous"
               /\ (~social /\ ~critical /\ vendor) => probe.output[1] = "Caution"
               /\ (~social /\ ~critical /\ ~vendor) => probe.output[1] = "Safe"

\* C25 amended: the rules look for the words with their prefix:
\* com.facebook, com.instagram, com.tiktok; com.google.android.gms,
\* com.android.vending, com.android.systemui; com.samsung, com.xiaomi,
\* com.miui, com.huawei, com.oppo, com.vivo
C25_LevelByTableThenPatterns ==
    Classified =>
        /\ KeysByTable
        /\ probe.input \notin DbKeys =>
            LET social == ContainsAny(probe.input, SocialPatterns)
                critical == ContainsAny(probe.input, CriticalPatterns)
                vendor == ContainsAny(probe.input, VendorPatterns)
            IN /\ social => probe.output[1] = "Caution"
               /\ (~social /\ critical) => probe.output[1] = "Dangerous"
               /\ (~social /\ ~critical /\ vendor) => probe.output[1] = "Caution"
               /\ (~social /\ ~critical /\ ~vendor) => probe.output[1] = "Safe"

\* com.google.android.gms, which the second rule would call Dangerous, was
\* classified by its table entry
C25_Witness ==
    /\ Classified
    /\ probe.input = <<"com", ".", "google", ".", "android", ".", "gms">>
    /\ ContainsAny(probe.input, CriticalPatterns)
    /\ probe.output = <<"Expert">>

\* C26: is_safe_to_remove is true exactly for the identifiers classified
\* Safe or Caution, false for those classified Expert or Dangerous
C26_SafeToRemoveIffSafeOrCaution ==
    probe.fn = "is_safe_to_remove" =>
        LET level == get_safety_level(probe.input) IN
        /\ level \in {"Safe", "Caution", "Expert", "Dangerous"}
        /\ level \in {"Safe", "Caution"} => probe.output = <<TRUE>>
        /\ level \in {"Expert", "Dangerous"} => probe.output = <<FALSE>>

\* an Expert package was refused
C26_Witness ==
    /\ probe.fn = "is_safe_to_remove"
    /\ get_safety_level(probe.input) = "Expert"
    /\ probe.output = <<FALSE>>

\* ===== properties of the storage and memory parsers =====

\* the storage parser was given a line of KB columns
StorageFromKb ==
    /\ probe.fn = "fetch_storage_info"
    /\ Len(probe.input[1]) >= 4

\* the percentage is used_mb / total_mb x 100, and 0 when total_mb is 0
PercentOf(info) ==
    /\ info.total_mb > 0 =>
        info.usage_percent[1] * info.total_mb = info.usage_percent[2] * info.used_mb * 100
    /\ info.total_mb = 0 => info.usage_percent = <<0, 1>>

IsHeader(line) ==
    Len(line) >= 3 /\ line[1] = <<"List">> /\ line[2] = <<"of">> /\ line[3] = <<"devices">>

IsComment(line) == Len(line) >= 1 /\ line[1] = <<"*">>

\* the lines that give an entry, in input order
EntryLines(output) ==
    SelectSeq(output, LAMBDA line : Len(line) >= 2 /\ ~IsHeader(line) /\ ~IsComment(line))

\* the key:value columns of a line after the first two that have this key
Keyed(line, key) ==
    {k \in 3..Len(line) : Len(line[k]) = 2 /\ line[k][1] = key}

\* the entry has the value of such a column, the last one if there are
\* several, and None if there is none
TakenFrom(line, key, value) ==
    IF Keyed(line, key) = {} THEN value = None
    ELSE \E k \in Keyed(line, key) :
            /\ value = line[k][2]
            /\ \A j \in Keyed(line, key) : j <= k

EntryOf(line, entry) ==
    /\ Len(line[1]) = 1 => entry.serial = line[1][1]
    /\ Len(line[1]) = 2 => entry.serial = line[1]
    /\ entry.state = line[2][1]
    /\ TakenFrom(line, "model", entry.model)
    /\ TakenFrom(line, "product", entry.product)
    /\ TakenFrom(line, "device", entry.device)
    /\ TakenFrom(line, "transport_id", entry.transport_id)

\* C28: parse_adb_devices gives one entry, in input order, for every line
\* of two or more columns that is neither the header nor a "*" line,
\* whatever its state, with serial and state from the first two columns
\* and the four properties from the key:value columns; other lines give
\* no entry
C28_OneEntryPerDeviceLine ==
    probe.fn = "parse_adb_devices" =>
        LET lines == EntryLines(probe.input) IN
        /\ Len(probe.output) = Len(lines)
        /\ \A i \in 1..Len(lines) : EntryOf(lines[i], probe.output[i])

\* a listing of a header, a ready device and an offline one gave two
\* entries, the offline one second
C28_Witness ==
    /\ probe.fn = "parse_adb_devices"
    /\ Len(probe.input) = 3
    /\ IsHeader(probe.input[1])
    /\ Len(probe.output) = 2
    /\ probe.output[1].state = "device" /\ probe.output[1].model = "A"
    /\ probe.output[2] = [serial |-> "B", state |-> "offline", model |-> None,
                          product |-> None, device |-> None, transport_id |-> None]

\* ===== properties of a failed serial resolution =====

ResolutionErrors == {"ADB not found", "ADB command failed", "No device connected"}

\* no line of the listing shows a device in state "device"
NoReadyDevice == \A i \in 1..Len(attached) : attached[i].state # "device"

\* a start_package_stream call that ended without a device serial
EndedUnresolved(t) ==
    IsStream(t) /\ task[t].pc = "done" /\ task[t].device_serial = None

\* C29: without a ready device, or with a failing device listing,
\* start_package_stream returns an error, emits no event, spawns no
\* package listing and leaves the package cache as it is
C29_FailsWholeWithoutDevice ==
    /\ [](\A t \in Tasks : EndedUnresolved(t) =>
            /\ task[t].result \in ResolutionErrors
            /\ task[t].emitted = <<>>
            /\ task[t].spawned.list = 0 /\ ~task[t].live
            /\ task[t].wrote = <<>>)
    /\ [][\A t \in Tasks : (task[t].pc = "resolve" /\ task'[t] # task[t]) =>
            /\ PACKAGE_CACHE' = PACKAGE_CACHE
            /\ task'[t].pc = "done" <=> task'[t].result \in ResolutionErrors
            /\ NoReadyDevice => task'[t].pc = "done"
            /\ (NoReadyDevice /\ task'[t].stderr = <<>> /\ bridge # "absent")
                => task'[t].result = "No device connected"]_vars

\* with the device unplugged the call failed, and the list an earlier pass
\* had cached is still there
C29_Witness ==
    \E t \in Tasks :
        /\ EndedUnresolved(t)
        /\ task[t].result = "No device connected"
        /\ attached = <<>>
        /\ PACKAGE_CACHE # <<>> /\ Len(PACKAGE_CACHE[1].packages) > 0

\* ===== properties of the order of batches =====

\* the records of the package lines among the first n lines the listing
\* subprocess prints for this device, in the order they are printed
Printed(serial, n) ==
    LET lines == [i \in 1..n |-> PmLine(serial, i)]
        named == SelectSeq(lines, LAMBDA line : line.prefix /\ line.name # 0)
    IN [k \in 1..Len(named) |-> StreamedPackage(named[k].name)]

\* C30: the batches of a live pass, put end to end, are the package lines
\* in the order the subprocess printed them; the list is sorted by package
\* name only once the last batch is out, and it is the sorted list that is
\* stored
C30_BatchesInPrintedOrder ==
    \A t \in Streamers : (IsStream(t) /\ task[t].live) =>
        LET printed == Printed(task[t].device_serial, task[t].lines_read) IN
        /\ IsPrefix(AllDelivered(t), printed)
        /\ task[t].pc \in {"reading", "wait"} => task[t].packages = printed
        /\ task[t].exit_ok =>
            /\ AllDelivered(t) = printed
            /\ SortedByName(task[t].packages)
            /\ Len(task[t].packages) = Len(printed)
        /\ task[t].pc = "store" => task[t].packages = SortByName(printed)
        /\ task[t].wrote # <<>> => task[t].wrote[1].packages = task[t].packages

\* a pass delivered two batches in printed order, the first of them not in
\* name order, and stored the list sorted
C30_Witness ==
    \E t \in Streamers :
        /\ IsStream(t) /\ task[t].live /\ task[t].wrote # <<>>
        /\ Len(Chunks(t)) = 2
        /\ ~SortedByName(Chunks(t)[1].packages)
        /\ AllDelivered(t) = Printed(task[t].device_serial, task[t].lines_read)
        /\ SortedByName(PACKAGE_CACHE[1].packages)
        /\ PACKAGE_CACHE = task[t].wrote

\* ===== properties of the battery and thermal fetchers =====

\* the raw consumption, in tenths of a mAh, that the output printed for a package
RawMah(lines, package_name) == lines[package_name].mah

RECURSIVE FractionSum(_)
FractionSum(fractions) ==
    IF fractions = <<>> THEN <<0, 1>>
    ELSE LET rest == FractionSum(Tail(fractions))
         IN  Fraction(fractions[1][1] * rest[2] + rest[1] * fractions[1][2],
                      fractions[1][2] * rest[2])

RECURSIVE RawSum(_, _)
RawSum(lines, drainers) ==
    IF drainers = <<>> THEN 0
    ELSE RawMah(lines, drainers[1].package_name) + RawSum(lines, Tail(drainers))

\* C31: the battery-drainer metric returns at most 5 entries, the ones with the
\* largest raw consumption among the parsed entries, in descending order of
\* consumption; each percentage is the entry's raw value over the sum of the
\* returned raw values times 100, and the percentages of a non-empty result
\* sum to 100
C31_TopFiveShareOfTopFive ==
    probe.fn = "fetch_battery_drainers" =>
        LET lines == probe.input[1]
            out == probe.output[1]
            parsed == {i \in 1..Len(lines) : lines[i].mah > 1}
            chosen == {out[k].package_name : k \in 1..Len(out)}
        IN  /\ Len(out) = Min(5, Cardinality(parsed))
            /\ chosen \subseteq parsed
            /\ Cardinality(chosen) = Len(out)
            /\ \A k \in 1..(Len(out) - 1) :
                   RawMah(lines, out[k].package_name) >= RawMah(lines, out[k + 1].package_name)
            /\ \A i \in parsed \ chosen : \A c \in chosen : lines[i].mah <= RawMah(lines, c)
            /\ \A k \in 1..Len(out) :
                   out[k].usage_percent =
                       Fraction(RawMah(lines, out[k].package_name) * 100, RawSum(lines, out))
            /\ out # <<>> =>
                   FractionSum([k \in 1..Len(out) |-> out[k].usage_percent]) = <<100, 1>>

\* more than five entries were parsed, with different consumptions among them
C31_SixParsedEntries ==
    /\ probe.fn = "fetch_battery_drainers"
    /\ Len(Drainers(probe.input[1])) > 5
    /\ Len(probe.output[1]) = 5
    /\ probe.output[1][1].usage_percent # probe.output[1][5].usage_percent

ThermalKeywords(status) ==
    CASE status = "critical" -> {"critical", "emergency"}
      [] status = "severe" -> {"severe", "shutdown"}
      [] status = "moderate" -> {"moderate", "throttling"}
      [] status = "normal" -> {"light", "normal", "none"}

\* a keyword of the status occurs in the output, in any letter case
Mentions(output, status) ==
    \E w \in 1..Len(output) : \E f \in 1..Len(output[w]) :
        to_lowercase(output[w][f]) \in ThermalKeywords(status)

\* C32: the thermal status is that of the highest-priority keyword present in
\* the case-folded output (critical, then severe, then moderate, then normal,
\* else unknown), and throttling is true exactly for critical, severe, moderate
C32_StatusOfHighestKeyword ==
    probe.fn = "fetch_thermal_info" =>
        LET output == probe.input[1]
            thermal == probe.output[1]
        IN  /\ thermal.status =
                   IF Mentions(output, "critical") THEN "critical"
                   ELSE IF Mentions(output, "severe") THEN "severe"
                   ELSE IF Mentions(output, "moderate") THEN "moderate"
                   ELSE IF Mentions(output, "normal") THEN "normal"
                   ELSE "unknown"
            /\ thermal.throttling <=> thermal.status \in {"critical", "severe", "moderate"}

\* an upper-case keyword of lower priority precedes one of higher priority
C32_SevereAfterNormal ==
    /\ probe.fn = "fetch_thermal_info"
    /\ probe.input[1] = << <<"NONE">>, <<"SHUTDOWN">> >>
    /\ probe.output[1].status = "severe"

\* ===== properties of overlapping passes =====

\* the pass has ended: its spawned task has emitted its last event and, on
\* success, written the cache
PassEnded(t) == IsStream(t) /\ task[t].live /\ task[t].pc = "done"

\* an ended pass has all its own batches and one terminal event, its last
EndedWhole(t) ==
    LET events == task[t].emitted
        terminal == {k \in 1..Len(events) :
                        events[k].event = "package_stream_progress" /\ events[k].is_complete}
    IN  /\ terminal = {Len(events)}
        /\ IsPrefix(AllDelivered(t), Printed(task[t].device_serial, task[t].lines_read))
        /\ IF task[t].exit_ok
           THEN /\ AllDelivered(t) = Printed(task[t].device_serial, task[t].lines_read)
                /\ Len(Completions(t)) = 1
                /\ LastEvent(t).error = None
                /\ task[t].wrote # <<>>
                /\ SameBag(task[t].wrote[1].packages, AllDelivered(t))
                /\ task[t].wrote[1].device_serial = task[t].device_serial
           ELSE /\ Completions(t) = <<>>
                /\ LastEvent(t).error # None
                /\ task[t].wrote = <<>>

\* a step of one invocation leaves the other invocation's pass as it is
LeavesOthers(t) ==
    task'[t] # task[t] => \A u \in Streamers \ {t} : task'[u] = task[u]

\* a pass that has begun is not restarted or reset before it has ended
KeepsGoing(t) ==
    (task[t].pc \in {"live", "reading", "wait", "store"} /\ task'[t] # task[t])
    => /\ task'[t].pc \in {"reading", "wait", "store", "done"}
       /\ task'[t].device_serial = task[t].device_serial
       /\ IsPrefix(task[t].emitted, task'[t].emitted)

\* the cache changes only by a clear or by the write of one pass, which
\* replaces the whole entry by that pass's list and serial
WritesWholeEntry ==
    PACKAGE_CACHE' # PACKAGE_CACHE =>
        \/ PACKAGE_CACHE' = <<>>
        \/ \E t \in Streamers :
              /\ task[t].pc = "store" /\ task'[t].pc = "done"
              /\ PACKAGE_CACHE' = task'[t].wrote
              /\ PACKAGE_CACHE'[1].packages = task[t].packages
              /\ PACKAGE_CACHE'[1].device_serial = task[t].device_serial

\* C33: a startStream made while another live pass is running does not
\* cancel it: no step of one pass changes the other, each pass that ends has
\* its own full batch sequence and one terminal event, and the cache is
\* always the whole entry of the pass that wrote last (or empty after a
\* clear), never a mixture of two lists
C33_OverlappingPassesBothEnd ==
    /\ [](/\ \A t \in Streamers : PassEnded(t) => EndedWhole(t)
          /\ PACKAGE_CACHE # <<>> => \E t \in Streamers : PACKAGE_CACHE = task[t].wrote)
    /\ [][/\ \A t \in Streamers : LeavesOthers(t) /\ KeepsGoing(t)
          /\ WritesWholeEntry]_vars

\* both passes ended with their own lists of different devices, and the
\* cache holds the entry of one of them
C33_BothEndedAfterOverlap ==
    \E t, u \in Streamers :
        /\ t # u
        /\ PassEnded(t) /\ PassEnded(u)
        /\ task[t].exit_ok /\ task[u].exit_ok
        /\ task[t].device_serial # task[u].device_serial
        /\ Len(Chunks(t)) = 2 /\ Len(Chunks(u)) = 2
        /\ PACKAGE_CACHE = task[t].wrote
        /\ task[t].wrote # task[u].wrote

\* ===== properties of a cache replay =====

\* the call found a usable cache entry and replays it
Replaying(t) == IsStream(t) /\ task[t].entry # <<>>

\* the events of a replay of `cached`, as far as it has come
ReplayedSoFar(t, cached) ==
    LET n == Len(cached)
        chunks == Chunks(t)
        events == task[t].emitted
    IN  /\ \A k \in 1..Len(chunks) :
              /\ chunks[k].chunk_index = k - 1
              /\ chunks[k].packages =
                    SubSeq(cached, CHUNK_SIZE * (k - 1) + 1, Min(CHUNK_SIZE * k, n))
              /\ chunks[k].total_so_far = Min(CHUNK_SIZE * k, n)
              /\ events[k + 1] = chunks[k]
        /\ CHUNK_SIZE * (Len(chunks) - 1) < n \/ chunks = <<>>
        /\ n = 0 => chunks = <<>>
        /\ IF task[t].pc = "done"
           THEN /\ CHUNK_SIZE * Len(chunks) >= n
                /\ Len(events) = Len(chunks) + 3
                /\ events[Len(chunks) + 2] = StreamComplete(n, 0, TRUE)
                /\ Len(Completions(t)) = 1
           ELSE Completions(t) = <<>>

\* a step of the replay, from the cache test to the return
ReplayStep(t) ==
    /\ task'[t] # task[t]
    /\ task[t].pc = "replay" \/ (task[t].pc = "check" /\ task'[t].pc = "replay")

\* C34: a replay of a cached list of n records emits them in cached, sorted
\* order as consecutive batches, batch k holding positions 30k up to
\* min(30(k+1), n) with that bound as total_so_far, then one completion
\* event with total n and from_cache=true; no step of the replay changes
\* the cache entry, and an empty list is replayed without any batch
C34_ReplayInCachedOrder ==
    /\ [](\A t \in Tasks : Replaying(t) =>
            /\ SortedByName(task[t].entry[1].packages)
            /\ ReplayedSoFar(t, task[t].entry[1].packages))
    /\ [][\A t \in Tasks : ReplayStep(t) => PACKAGE_CACHE' = PACKAGE_CACHE]_vars

\* a list of 59 records was replayed in two batches while the entry, stored
\* some time before, stayed in the cache
C34_TwoBatchReplay ==
    \E t \in Tasks :
        /\ Replaying(t) /\ task[t].pc = "done"
        /\ Len(task[t].entry[1].packages) = 2 * CHUNK_SIZE - 1
        /\ Len(Chunks(t)) = 2
        /\ Chunks(t)[2].total_so_far = 2 * CHUNK_SIZE - 1
        /\ task[t].entry_age > 0
        /\ PACKAGE_CACHE = task[t].entry

\* an empty list was replayed
C34_EmptyReplay ==
    \E t \in Tasks :
        /\ Replaying(t) /\ task[t].pc = "done"
        /\ Len(task[t].entry[1].packages) = 0

\* ===== properties of a failed read =====

\* C35: a live pass writes a cache entry only when the output was read up
\* to its end: a pass whose line loop was ended by a failed read stores
\* nothing, also when the subprocess then exits with status zero
C35_NoStoreAfterFailedRead ==
    \A t \in Tasks :
        (IsStream(t) /\ task[t].read_failed) =>
            /\ task[t].wrote = <<>>
            /\ task[t].pc # "store"

\* ===== properties of a failed refetch =====

\* the errors execute_adb_command can return
TypedErrors ==
    {AdbErr("AdbNotFound", {})} \cup {ClassifyStderr(stderr) : stderr \in StderrTexts}

\* the call is inside get_devices, past the cache test or about to make it
InGetDevices(c) ==
    call[c].command = "get_devices" /\ call[c].pc \in {"enter", "running"}

\* C36: a get_devices that has to refetch and whose bridge command fails
\* returns the typed error of that one command, having run it at most once,
\* and not the cached list; no step of the call changes the cached list or
\* its timestamp
C36_FailedRefetchKeepsCache ==
    /\ [](\A c \in Callers :
            (call[c].command = "get_devices" /\ call[c].pc = "done"
                /\ (call[c].stderr # <<>> \/ call[c].result.kind = "Err"))
            => /\ call[c].result \in TypedErrors
               /\ call[c].stderr # <<>> => call[c].result = ClassifyStderr(call[c].stderr[1])
               /\ call[c].spawned <= 1
               /\ call[c].listed = <<>>)
    /\ [][\A c \in Callers :
            /\ (InGetDevices(c) /\ call'[c].pc = "done" /\ call'[c].spawned = 0)
                => \/ call'[c].result.kind = "Err"
                   \/ ~call[c].force_refresh /\ FreshCache
            /\ (InGetDevices(c) /\ call'[c].pc # call[c].pc
                    /\ call'[c].result.kind # "Ok")
                => DEVICE_CACHE' = DEVICE_CACHE
            /\ (InGetDevices(c) /\ call[c].pc = "running" /\ call'[c].pc = "running")
                => DEVICE_CACHE' = DEVICE_CACHE]_vars

\* an expired cache held a device when the refetch failed: the caller got
\* the error, and the cache is as it was
C36_StaleListNotServed ==
    \E c \in Callers :
        /\ call[c].command = "get_devices" /\ call[c].pc = "done"
        /\ call[c].spawned = 1 /\ call[c].stderr = <<{"device unauthorized"}>>
        /\ call[c].result = AdbErr("DeviceUnauthorized", {})
        /\ ~call[c].force_refresh
        /\ DEVICE_CACHE.devices # <<>>
        /\ call[c].at - DEVICE_CACHE.last_update > DEVICE_CACHE_DURATION

\* ===== properties of the end of a pass =====

\* the positions of the pass's progress events with is_complete = true
Terminals(t) ==
    {k \in 1..Len(task[t].emitted) :
        /\ task[t].emitted[k].event = "package_stream_progress"
        /\ task[t].emitted[k].is_complete}

\* start_package_stream returned Ok to its caller
ReturnedOk(t) == IsStream(t) /\ task[t].result = "Ok"

\* one terminal event, the last event of the pass: without error and after
\* the one completion event, or with an error and no completion event
OneTerminal(t) ==
    LET events == task[t].emitted IN
    /\ Terminals(t) = {Len(events)}
    /\ IF LastEvent(t).error = None
       THEN Len(Completions(t)) = 1 /\ events[Len(events) - 1] = Completions(t)[1]
       ELSE Completions(t) = <<>>

\* C37: every start_package_stream that returned Ok is eventually followed
\* by one progress event with is_complete = true for its pass, without
\* error after a completion event or with an error and no completion
\* event; a pass never has two terminal events, and one that has nothing
\* left to do has its terminal event
C37_EveryPassEndsOnce ==
    /\ [](\A t \in Tasks :
            /\ Cardinality(Terminals(t)) <= 1
            /\ Terminals(t) # {} => OneTerminal(t)
            /\ (ReturnedOk(t) /\ task[t].pc = "done") => Terminals(t) # {})
    /\ \A t \in Tasks : ReturnedOk(t) ~> (ReturnedOk(t) /\ OneTerminal(t))

\* a live pass whose subprocess exited non-zero after a batch ended with an
\* error event as its only terminal event
C37_EndedWithError ==
    \E t \in Tasks :
        /\ ReturnedOk(t) /\ task[t].live /\ ~task[t].exit_ok /\ task[t].pc = "done"
        /\ Chunks(t) # <<>>
        /\ OneTerminal(t) /\ LastEvent(t).error = "ADB command failed"

\* ===== properties of the cache status =====

\* the step is a get_cache_status that found an entry
ReportsStatus(t) ==
    /\ task'[t] # task[t]
    /\ task'[t].command = "get_cache_status"
    /\ PACKAGE_CACHE # <<>>

\* a start_package_stream(false) for the cached serial, at the instant of
\* the step, would not replay the entry
WouldRefetch == ~CacheHit(PACKAGE_CACHE, FALSE, PACKAGE_CACHE[1].device_serial)

\* C38: get_cache_status reports is_expired = true exactly when a
\* start_package_stream(false) for the cached serial at the same instant
\* would refuse to replay the entry, at every cache age
C38_StatusAgreesWithReplay ==
    [][\A t \in Tasks :
        ReportsStatus(t) => (task'[t].status[1].is_expired <=> WouldRefetch)]_vars

\* ===== properties of concurrent registry calls =====

\* both calls have returned a device list
BothListed(c, d) ==
    /\ c # d
    /\ call[c].pc = "done" /\ call[c].result.kind = "Ok"
    /\ call[d].pc = "done" /\ call[d].result.kind = "Ok"

\* C39: of two get_devices(false) calls that run concurrently on an expired
\* cache, only one at a time is past the lock; when the fetch succeeds, one
\* `devices -l` subprocess was spawned in all, the caller that did not spawn
\* returns the list the other one stored, and both receive the same list
C39_OneSpawnForBoth ==
    /\ Cardinality({c \in Contenders : call[c].pc = "running"}) <= 1
    /\ \A c \in Contenders : call[c].pc = "running" <=> deviceLock = c
    /\ \A c, d \in Contenders :
          BothListed(c, d) =>
              /\ call[c].spawned + call[d].spawned = 1
              /\ call[c].result = call[d].result
              /\ call[c].result = AdbOk(DEVICE_CACHE.devices)
              /\ call[c].spawned = 0 => call[c].at = DEVICE_CACHE.last_update

\* the second call waited while the listing of the first ran for some
\* seconds, and both returned the one device that was listed
C39_SecondServedFromFirst ==
    \E c, d \in Contenders :
        /\ BothListed(c, d)
        /\ call[c].spawned = 1 /\ call[d].spawned = 0
        /\ call[d].at > call[c].at
        /\ call[d].at - call[c].at > DEVICE_CACHE_DURATION
        /\ Len(call[d].result.value) = 1

\* ===== properties of the monitor loop =====

\* the step is an iteration of the loop: get-state is asked
Polls == pass'["monitor"].polls = pass["monitor"].polls + 1

\* the monitor's pass has issued a command or emitted an event in the step,
\* or the health cache has changed
MonitorActed ==
    \/ HEALTH_CACHE' # HEALTH_CACHE
    \/ pass'["monitor"].emitted # pass["monitor"].emitted
    \/ pass'["monitor"].failed # pass["monitor"].failed
    \/ pass'["monitor"].succeeded # pass["monitor"].succeeded
    \/ pass'["monitor"].pc # pass["monitor"].pc

\* C40: the monitor loop starts a collection pass in an iteration only if
\* get-state succeeded in that iteration and answered "device"; in any other
\* iteration no metric command is issued, no system_health_update event is
\* emitted, the health cache stays as it is, and the loop is back at its
\* start for the next iteration
C40_PassOnlyAfterDeviceAnswer ==
    /\ [](pass["monitor"].pc \in {"serial", "check", "fetch"}
            => pass["monitor"].polled = <<"device">>)
    /\ [][/\ Polls => (pass'["monitor"].pc = "serial" <=> GetState = <<"device">>)
          /\ (Polls /\ GetState # <<"device">>) =>
                /\ ~MonitorActed
                /\ pass'["monitor"].pc \in {"idle", "done"}
                /\ pass'["monitor"].polled = GetState
          /\ (MonitorActed /\ ~Polls) =>
                /\ pass["monitor"].pc \in {"serial", "fetch"}
                /\ pass["monitor"].polled = <<"device">>]_vars

\* a first iteration collected from device A; in the second the device
\* answered "offline" and the snapshot, events and cache stayed
C40_SkippedWhileOffline ==
    /\ pass["monitor"].polls = 2
    /\ pass["monitor"].polled = <<"offline">>
    /\ pass["monitor"].pc = "done"
    /\ pass["monitor"].returned # <<>>
    /\ pass["monitor"].device_id = "A"
    /\ HEALTH_CACHE.device_id = "A"

\* ===== properties across the components =====

\* a start_package_stream whose `devices -l` exited non-zero
ListingFailed(t) ==
    IsStream(t) /\ task[t].pc = "done" /\ task[t].stderr # <<>>

\* C14: a failing bridge command surfaces, in the streaming enumerator as in
\* the registry, the error the executor's classification gives its stderr
C14_SameErrorAsExecutor ==
    \A t \in Tasks :
        ListingFailed(t)
            => task[t].result = Display(ClassifyStderr(task[t].stderr[1]).error)


\* C16: the bridge executable is looked for at most once: no operation runs
\* the locator's version probe after it has been run before
C16_LocatedOnce ==
    \A t \in Tasks : task[t].spawned.version <= 1

====
